---- MODULE Spec2Model ----
(***************************************************************************)
(* Client-side token orchestrator of SecureAuthGateway: the request and    *)
(* response interceptors of client/lib/axios.ts (apiClient) and of the     *)
(* second axios instance kept in client/app/dashboard/users/page.tsx       *)
(* (axiosInstance), the token stores they read and write, the login hook   *)
(* that stores the token, and the server's refresh / login handlers that   *)
(* answer them.                                                            *)
(*                                                                         *)
(* JavaScript runs a handler to completion: an action is one task (a       *)
(* response arriving, a call being started, a page load).  The success     *)
(* path of the refresh continuation is cut into its statements, ordered by *)
(* pc, and no other task runs while pc is not "idle" or while resolved     *)
(* continuations (microtasks) are pending.                                 *)
(***************************************************************************)
EXTENDS Integers, Sequences, FiniteSets, TLC

\* ---------------------------------------------------------------- bounds
NumCalls == 3
Calls == 1 .. NumCalls

\* calls started in the behaviours checked for liveness
LiveCalls == 2

\* ------------------------------------------------------------- constants
\* Access tokens.  The code only tests a token for presence and hands it on,
\* so a token is kept as: absent, the token the server generated last, or a
\* token generated before that one.
NULL == 0
STALE == 1
FRESH == 2
Tokens == {NULL, STALE, FRESH}

Impls == {"apiClient", "axiosInstance"}
Urls == {"business", "login", "logout"}

VARIABLES
    impl,            \* which axios instance the calls of this page go through
    accessToken,     \* axios.ts: let accessToken (in-memory)
    sessionStorage,  \* sessionStorage item 'accessToken'
    localStorage,    \* localStorage items 'accessToken' and 'refreshToken'
    isRefreshing,    \* let isRefreshing
    failedQueue,     \* let failedQueue (continuations, by call)
    calls,           \* per call: url, state, _retry, Authorization header,
                     \* times sent, status of the error response being handled
    pc,              \* statement of the refresh continuation being executed
    newAccessToken,  \* const newAccessToken of the refresh continuation
    released,        \* continuations settled by processQueue, not yet run
    redirected,      \* window.location.href was set to '/auth/login'
    cookieValid,     \* the browser holds a jwt cookie the server accepts
    isActive,        \* user.isActive in the credential store
    current          \* the client obtained a token and was not logged out since

\* The server: its clock, and the middleware function applied last with the
\* request it was applied to and what it did.
VARIABLES
    now,             \* the server's clock, in seconds
    mw,              \* the middleware applied last: its input and its outcome
    users,           \* the credential store (User collection), by identity
    txns,            \* the Transaction collection: merchantId, oldest first
    last,            \* the request served last and the response to it
    deactivated,     \* the identities a status update has set inactive so far
    accounts,        \* the documents register added to the User collection
    registrations,   \* the register requests: where each is in the handler
    requests         \* the login, refresh and status request served piecewise

client == << impl, accessToken, sessionStorage, localStorage, isRefreshing,
             failedQueue, calls, pc, newAccessToken, released,
             redirected, cookieValid, isActive, current >>

\* the collections and the exchange served last
api == << users, txns, last, deactivated >>

\* what the handlers served piecewise (at their awaits) work on
signup == << accounts, registrations, requests >>

server == << now, mw, api, signup >>

vars == << client, server >>

NewCall == [url |-> "business", st |-> "new", retry |-> FALSE, auth |-> NULL,
            sends |-> 0, status |-> 0]

\* The promise of a call has settled with this outcome (and, for an error of
\* its own, this status): its request object is not used again.
Settled(outcome, status) == [NewCall EXCEPT !.st = outcome, !.status = status]

Quiescent == pc = "idle" /\ released = << >>

\* The call whose refresh continuation is running (originalRequest).
Handling == CHOOSE c \in Calls : calls[c].st = "resuming"

\* ------------------------------------------------------------ the server

\* AuthController.refreshToken: the status it answers with.
refreshTokenStatus(cookie, active) ==
    IF ~cookie THEN 401
    ELSE IF ~active THEN 403
    ELSE 200

\* AuthController.login: the statuses it can answer with (the credentials
\* are an input: right or wrong).
loginStatuses(active) == {401} \cup (IF active THEN {200} ELSE {403})

\* protect followed by restrictTo and the handler, for a business call: no
\* bearer token is always 401; a token is accepted, expired (401) or of an
\* insufficient role (403).
businessStatuses(auth) == IF auth = NULL THEN {401} ELSE {200, 401, 403}

\* TokenService.generateAccessToken returns a new token: what was the last
\* token generated is an older token from now on.
Age(t) == IF t = FRESH THEN STALE ELSE t

AgeCalls(cs) == [c \in Calls |-> [cs[c] EXCEPT !.auth = Age(cs[c].auth)]]

\* ----------------------------------------------- the request interceptor

\* The token the request interceptor finds.
RequestToken(i, mem, ls) ==
    IF i = "apiClient"
    THEN (IF mem # NULL THEN mem ELSE ls.accessToken)
    ELSE ls.accessToken

\* The Authorization header after the request interceptor: overwritten only
\* when a token was found.
AttachToken(i, mem, ls, hdr) ==
    IF RequestToken(i, mem, ls) # NULL THEN RequestToken(i, mem, ls) ELSE hdr

\* apiClient keeps the token it loaded from localStorage in memory.
MemAfterRequest(i, mem, ls) ==
    IF i = "apiClient" /\ mem = NULL THEN RequestToken(i, mem, ls) ELSE mem

\* A call leaves: request interceptor, then the transport.
Dispatch(req) ==
    [req EXCEPT !.st = "sent",
                !.auth = AttachToken(impl, accessToken, localStorage, req.auth),
                !.sends = req.sends + 1,
                !.status = 0]

\* ---------------------------------------------- the response interceptor

IsAuthUrl(url) == url \in {"login", "register", "refresh"}

\* OnError without the isRefreshing test: every unretried 401 starts a refresh.
OnError_NoQueue(i, status, req, refreshing) ==
    IF i = "apiClient"
    THEN (IF status = 401 /\ ~req.retry THEN "refresh" ELSE "reject")
    ELSE (IF status # 401 \/ req.retry \/ IsAuthUrl(req.url)
          THEN "reject" ELSE "refresh")

\* OnError with 403 handled like 401.
OnError_403(i, status, req, refreshing) ==
    IF i = "apiClient"
    THEN (IF status \in {401, 403} /\ ~req.retry
          THEN (IF refreshing THEN "enqueue" ELSE "refresh")
          ELSE "reject")
    ELSE (IF status \notin {401, 403} \/ req.retry \/ IsAuthUrl(req.url)
          THEN "reject"
          ELSE (IF refreshing THEN "enqueue" ELSE "refresh"))

\* OnError without the _retry test: every 401 is queued or starts a refresh.
OnError_RetryAgain(i, status, req, refreshing) ==
    IF i = "apiClient"
    THEN (IF status = 401
          THEN (IF refreshing THEN "enqueue" ELSE "refresh")
          ELSE "reject")
    ELSE (IF status # 401 \/ IsAuthUrl(req.url)
          THEN "reject"
          ELSE (IF refreshing THEN "enqueue" ELSE "refresh"))

\* The branch the error handler takes for a response: "reject" hands the
\* error to the caller, "enqueue" joins the running refresh, "refresh" makes
\* this call the refresh initiator.
OnError(i, status, req, refreshing) ==
    IF i = "apiClient"
    THEN (IF status = 401 /\ ~req.retry
          THEN (IF refreshing THEN "enqueue" ELSE "refresh")
          ELSE "reject")
    ELSE (IF status # 401 \/ req.retry \/ IsAuthUrl(req.url)
          THEN "reject"
          ELSE (IF refreshing THEN "enqueue" ELSE "refresh"))

\* typeof window !== 'undefined': the pages run in the browser.
Window == TRUE

\* startRefresh as it would be if the path without a refresh token returned
\* before resetting the flag
startRefresh_FlagLeft(i, window, refreshToken) ==
    IF i = "apiClient" THEN [isRefreshing |-> TRUE, then |-> "await"]
    ELSE IF ~window THEN [isRefreshing |-> FALSE, then |-> "reject"]
    ELSE IF ~refreshToken THEN [isRefreshing |-> TRUE, then |-> "logout"]
    ELSE [isRefreshing |-> TRUE, then |-> "await"]

\* The error handler from 'isRefreshing = true' to its await or its early
\* return: the flag it leaves and what follows ("await" the refresh request,
\* "logout" without a request, "reject" the error outside a browser).
startRefresh(i, window, refreshToken) ==
    IF i = "apiClient" THEN [isRefreshing |-> TRUE, then |-> "await"]
    ELSE IF ~window THEN [isRefreshing |-> FALSE, then |-> "reject"]
    ELSE IF ~refreshToken THEN [isRefreshing |-> FALSE, then |-> "logout"]
    ELSE [isRefreshing |-> TRUE, then |-> "await"]

\* processQueue that forgets the continuation queued last.
processQueue_Lossy(queue, error, token) ==
    [k \in 1 .. (Len(queue) - 1) |->
        [call |-> queue[k], error |-> error, token |-> token]]

\* processQueue that settles the continuations last-in first-out.
processQueue_Lifo(queue, error, token) ==
    [k \in 1 .. Len(queue) |->
        [call |-> queue[Len(queue) + 1 - k], error |-> error, token |-> token]]

\* processQueue(error, token): one settlement per queued continuation, in
\* queue order (forEach), each with the same error flag and token.
RECURSIVE processQueue(_, _, _)
processQueue(queue, error, token) ==
    IF queue = << >> THEN << >>
    ELSE << [call |-> Head(queue), error |-> error, token |-> token] >>
         \o processQueue(Tail(queue), error, token)

\* The calls after a processQueue that produced the settlements ss.
Release(cs, ss) ==
    [c \in Calls |->
        IF \E k \in 1 .. Len(ss) : ss[k].call = c
        THEN [cs[c] EXCEPT !.st = "released"]
        ELSE cs[c]]

\* ------------------------------------------------------ token management

\* setTokens that writes sessionStorage only.
setTokens_NoMemory(access) ==
    /\ accessToken' = accessToken
    /\ sessionStorage' = access

\* setTokens(access) of axios.ts: memory and sessionStorage.
setTokens(access) ==
    /\ accessToken' = access
    /\ sessionStorage' = access

\* clearTokens() of axios.ts: memory and sessionStorage.
clearTokens ==
    /\ accessToken' = NULL
    /\ sessionStorage' = NULL

\* What each instance does with a token it got from /auth/refresh.
StoreNewToken(t) ==
    IF impl = "apiClient"
    THEN setTokens(t) /\ UNCHANGED localStorage
    ELSE /\ localStorage' = [localStorage EXCEPT !.accessToken = t]
         /\ UNCHANGED << accessToken, sessionStorage >>

\* What each instance removes when the refresh failed.
ForgetTokens ==
    IF impl = "apiClient"
    THEN clearTokens /\ UNCHANGED localStorage
    ELSE /\ localStorage' = [accessToken |-> NULL, refreshToken |-> FALSE]
         /\ UNCHANGED << accessToken, sessionStorage >>

\* ------------------------------------------------------------------ Init

\* No middleware was applied yet.
NoMiddleware == [fn |-> "none"]

\* No request was served yet.
NoRequest == [op |-> "none"]

\* A document of the User collection (email, role and password are those of
\* the identity), or the place of one that is not in the collection.
UserDoc(provider, active) == [exists |-> TRUE, provider |-> provider, isActive |-> active]
NoDoc == [exists |-> FALSE, provider |-> "", isActive |-> FALSE]

\* The store with an administrator, a merchant and a user, all registered
\* locally and active (isActive defaults to true).
SeedUsers ==
    [id \in {"a", "m", "u", "x"} |-> IF id = "x" THEN NoDoc ELSE UserDoc("local", TRUE)]

\* the register requests a run serves
NumRegistrations == 2

\* A register request that has not arrived yet.
NoRegistration == [pc |-> "idle"]

\* The server before its first request.
ServerAtRest ==
    /\ now = 0
    /\ mw = NoMiddleware
    /\ users = SeedUsers
    /\ txns = << >>
    /\ last = NoRequest
    /\ deactivated = {}
    /\ accounts = << >>
    /\ registrations = [r \in 1..NumRegistrations |-> NoRegistration]
    /\ requests = [h \in {"login", "refresh", "status"} |-> NoRegistration]

Init ==
    /\ ServerAtRest
    /\ impl \in Impls
    /\ accessToken = NULL
    /\ sessionStorage = NULL
    \* only axiosInstance ever reads the 'refreshToken' item
    /\ localStorage \in [accessToken : {NULL},
                         refreshToken : IF impl = "apiClient" THEN {FALSE}
                                        ELSE BOOLEAN]
    /\ isRefreshing = FALSE
    /\ failedQueue = << >>
    /\ calls = [c \in Calls |-> NewCall]
    /\ pc = "idle"
    /\ newAccessToken = NULL
    /\ released = << >>
    /\ redirected = FALSE
    /\ cookieValid \in BOOLEAN
    /\ isActive \in BOOLEAN
    /\ current = FALSE

\* --------------------------------------------------------------- actions

\* A component starts a call through the instance (calls are numbered in
\* the order they are started).
StartCall(c, url) ==
    /\ Quiescent
    /\ calls[c].st = "new"
    \* the sidebar with the logout button is rendered for a signed-in user
    /\ url = "logout" => current
    /\ \A d \in Calls : d < c => calls[d].st # "new"
    /\ calls' = [calls EXCEPT ![c] = Dispatch([calls[c] EXCEPT !.url = url])]
    /\ accessToken' = MemAfterRequest(impl, accessToken, localStorage)
    /\ UNCHANGED server
    /\ UNCHANGED << impl, sessionStorage, localStorage, isRefreshing, failedQueue,
                    pc, newAccessToken, released, redirected,
                    cookieValid, isActive, current >>

\* A 2xx response to a business call: its promise resolves.
RespondOk(c) ==
    /\ Quiescent
    /\ calls[c].st = "sent"
    /\ calls[c].url = "business"
    /\ 200 \in businessStatuses(calls[c].auth)
    /\ calls' = [calls EXCEPT ![c] = Settled("ok", 0)]
    /\ UNCHANGED server
    /\ UNCHANGED << impl, accessToken, sessionStorage, localStorage, isRefreshing,
                    failedQueue, pc, newAccessToken, released, redirected,
                    cookieValid, isActive, current >>

\* The calls after a page load: those in flight are gone with their page.
Unload(cs) ==
    [c \in Calls |-> IF cs[c].st \in {"sent", "queued", "refreshing", "resuming", "released"}
                     THEN Settled("dropped", 0) ELSE cs[c]]

\* A 200 response to a login: the server generated both tokens and set the
\* jwt cookie; useLogin.onSuccess puts the access token in localStorage and
\* reloads the page (window.location.href = '/dashboard').
LoginOk(c) ==
    /\ Quiescent
    /\ calls[c].st = "sent"
    /\ calls[c].url = "login"
    /\ 200 \in loginStatuses(isActive)
    /\ cookieValid' = TRUE
    /\ current' = TRUE
    /\ localStorage' = [localStorage EXCEPT !.accessToken = FRESH]
    /\ sessionStorage' = Age(sessionStorage)
    /\ accessToken' = NULL
    /\ isRefreshing' = FALSE
    /\ failedQueue' = << >>
    /\ redirected' = FALSE
    /\ calls' = Unload([calls EXCEPT ![c] = Settled("ok", 0)])
    /\ UNCHANGED server
    /\ UNCHANGED << impl, pc, newAccessToken, released, isActive >>

\* useLogout.onSuccess: localStorage.removeItem('accessToken'); the stores
\* after it.
useLogoutSuccess(ls, ss) ==
    [localStorage |-> [ls EXCEPT !.accessToken = NULL], sessionStorage |-> ss]

\* The 200 response to a logout (the route is public and the handler only
\* clears the jwt cookie): useLogout.onSuccess removes the localStorage item
\* and loads the login page (window.location.href = '/auth/login').
LogoutOk(c) ==
    /\ Quiescent
    /\ calls[c].st = "sent"
    /\ calls[c].url = "logout"
    /\ cookieValid' = FALSE
    /\ current' = FALSE
    /\ localStorage' = useLogoutSuccess(localStorage, sessionStorage).localStorage
    /\ sessionStorage' = useLogoutSuccess(localStorage, sessionStorage).sessionStorage
    /\ accessToken' = NULL
    /\ isRefreshing' = FALSE
    /\ failedQueue' = << >>
    /\ redirected' = FALSE
    /\ calls' = Unload([calls EXCEPT ![c] = Settled("ok", 0)])
    /\ UNCHANGED server
    /\ UNCHANGED << impl, pc, newAccessToken, released, isActive >>

\* An error response reaches the error handler of the response interceptor,
\* which runs up to its first await.
RespondError(c, status) ==
    /\ Quiescent
    /\ calls[c].st = "sent"
    /\ calls[c].url # "logout"
    /\ status \in (IF calls[c].url = "login" THEN loginStatuses(isActive)
                   ELSE businessStatuses(calls[c].auth))
    /\ LET branch == OnError(impl, status, calls[c], isRefreshing) IN
       CASE branch = "reject" ->
              /\ calls' = [calls EXCEPT ![c] = Settled("rejectedOwn", status)]
              /\ UNCHANGED << isRefreshing, failedQueue, localStorage, redirected,
                              released, current >>
         [] branch = "enqueue" ->
              /\ failedQueue' = Append(failedQueue, c)
              /\ calls' = [calls EXCEPT ![c].st = "queued", ![c].status = status]
              /\ UNCHANGED << isRefreshing, localStorage, redirected, released,
                              current >>
         [] /\ branch = "refresh"
            /\ startRefresh(impl, Window, localStorage.refreshToken).then = "await" ->
              \* POST /auth/refresh leaves; the handler awaits it
              /\ isRefreshing' = startRefresh(impl, Window, localStorage.refreshToken).isRefreshing
              /\ calls' = [calls EXCEPT ![c].st = "refreshing", ![c].retry = TRUE,
                                        ![c].status = status]
              /\ UNCHANGED << failedQueue, localStorage, redirected, released,
                              current >>
         [] /\ branch = "refresh"
            /\ startRefresh(impl, Window, localStorage.refreshToken).then = "logout" ->
              \* users/page.tsx: no 'refreshToken' item in localStorage
              /\ isRefreshing' = startRefresh(impl, Window, localStorage.refreshToken).isRefreshing
              /\ released' = released \o processQueue(failedQueue, TRUE, NULL)
              /\ failedQueue' = << >>
              /\ calls' = [Release(calls, processQueue(failedQueue, TRUE, NULL))
                              EXCEPT ![c] = Settled("rejectedOwn", status)]
              /\ localStorage' = [accessToken |-> NULL, refreshToken |-> FALSE]
              /\ redirected' = TRUE
              /\ current' = FALSE
    /\ UNCHANGED server
    /\ UNCHANGED << impl, accessToken, sessionStorage, pc,
                    newAccessToken, cookieValid, isActive >>

\* The answer to POST /auth/refresh is a new access token: the continuation
\* of the initiator resumes after its await.
RefreshSucceeds(c) ==
    /\ Quiescent
    /\ calls[c].st = "refreshing"
    /\ refreshTokenStatus(cookieValid, isActive) = 200
    /\ newAccessToken' = FRESH
    /\ current' = TRUE
    /\ pc' = "setTokens"
    /\ accessToken' = Age(accessToken)
    /\ sessionStorage' = Age(sessionStorage)
    /\ localStorage' = [localStorage EXCEPT !.accessToken = Age(@)]
    /\ calls' = [AgeCalls(calls) EXCEPT ![c].st = "resuming"]
    /\ UNCHANGED server
    /\ UNCHANGED << impl, isRefreshing, failedQueue, released, redirected,
                    cookieValid, isActive >>

\* setTokens(newAccessToken) (localStorage.setItem in axiosInstance), then
\* the Authorization header of the original request.
StepSetTokens ==
    /\ pc = "setTokens"
    /\ StoreNewToken(newAccessToken)
    /\ calls' = [calls EXCEPT ![Handling].auth = newAccessToken]
    /\ pc' = "processQueue"
    /\ UNCHANGED server
    /\ UNCHANGED << impl, isRefreshing, failedQueue, newAccessToken,
                    released, redirected, cookieValid, isActive, current >>

\* processQueue(null, newAccessToken)
StepProcessQueue ==
    /\ pc = "processQueue"
    /\ released' = released \o processQueue(failedQueue, FALSE, newAccessToken)
    /\ failedQueue' = << >>
    /\ calls' = Release(calls, processQueue(failedQueue, FALSE, newAccessToken))
    /\ pc' = "retry"
    /\ UNCHANGED server
    /\ UNCHANGED << impl, accessToken, sessionStorage, localStorage, isRefreshing,
                    newAccessToken, redirected, cookieValid, isActive, current >>

\* return apiClient(originalRequest), and isRefreshing = false
StepRetry ==
    /\ pc = "retry"
    /\ calls' = [calls EXCEPT ![Handling] = Dispatch(calls[Handling])]
    /\ accessToken' = MemAfterRequest(impl, accessToken, localStorage)
    /\ isRefreshing' = FALSE
    /\ pc' = "idle"
    /\ newAccessToken' = NULL
    /\ UNCHANGED server
    /\ UNCHANGED << impl, sessionStorage, localStorage, failedQueue, released,
                    redirected, cookieValid, isActive, current >>

\* The answer to POST /auth/refresh is an error: the catch block and the
\* finally block.
RefreshFails(c) ==
    /\ Quiescent
    /\ calls[c].st = "refreshing"
    /\ refreshTokenStatus(cookieValid, isActive) # 200
    /\ released' = released \o processQueue(failedQueue, TRUE, NULL)
    /\ failedQueue' = << >>
    /\ ForgetTokens
    /\ redirected' = TRUE
    /\ calls' = [Release(calls, processQueue(failedQueue, TRUE, NULL))
                    EXCEPT ![c] = Settled("rejectedRefresh", 0)]
    /\ isRefreshing' = FALSE
    /\ current' = FALSE
    /\ UNCHANGED server
    /\ UNCHANGED << impl, pc, newAccessToken, cookieValid, isActive >>

\* A settled continuation runs: a resolved one sets its header and re-sends
\* the call, a rejected one rejects the call with the refresh error.
RunContinuation ==
    /\ pc = "idle"
    /\ released # << >>
    /\ LET h == Head(released) IN
       IF h.error
       THEN /\ calls' = [calls EXCEPT ![h.call] = Settled("rejectedRefresh", 0)]
            /\ UNCHANGED accessToken
       ELSE /\ calls' = [calls EXCEPT ![h.call] =
                            Dispatch([calls[h.call] EXCEPT !.auth = h.token])]
            /\ accessToken' = MemAfterRequest(impl, accessToken, localStorage)
    /\ released' = Tail(released)
    /\ UNCHANGED server
    /\ UNCHANGED << impl, sessionStorage, localStorage, isRefreshing, failedQueue,
                    pc, newAccessToken, redirected, cookieValid,
                    isActive, current >>

\* The page is loaded anew (the reload after login, the redirect, or the
\* user): the module state is re-initialised and the calls in flight are gone.
PageLoad ==
    /\ Quiescent
    /\ \E c \in Calls : calls[c].st # "new"
    /\ accessToken' = NULL
    /\ isRefreshing' = FALSE
    /\ failedQueue' = << >>
    /\ redirected' = FALSE
    /\ calls' = Unload(calls)
    /\ UNCHANGED server
    /\ UNCHANGED << impl, sessionStorage, localStorage, pc,
                    newAccessToken, released, cookieValid, isActive, current >>

\* The jwt cookie expires.
CookieExpires ==
    /\ cookieValid
    /\ cookieValid' = FALSE
    /\ UNCHANGED server
    /\ UNCHANGED << impl, accessToken, sessionStorage, localStorage, isRefreshing,
                    failedQueue, calls, pc, newAccessToken, released,
                    redirected, isActive, current >>

\* Everything but the start of a call.
Handlers ==
    \/ \E c \in Calls : RespondOk(c)
    \/ \E c \in Calls : LoginOk(c)
    \/ \E c \in Calls : LogoutOk(c)
    \/ \E c \in Calls, status \in {401, 403} : RespondError(c, status)
    \/ \E c \in Calls : RefreshSucceeds(c)
    \/ StepSetTokens
    \/ StepProcessQueue
    \/ StepRetry
    \/ \E c \in Calls : RefreshFails(c)
    \/ RunContinuation
    \/ PageLoad
    \/ CookieExpires

Next ==
    \/ \E c \in Calls, url \in Urls : StartCall(c, url)
    \/ Handlers

Spec == Init /\ [][Next]_vars

\* The answer to a call, and to a refresh request, arrives (the transport
\* gives up after its timeout); a running handler and the continuations it
\* settled run to their end.
Respond(c) ==
    \/ RespondOk(c)
    \/ LoginOk(c)
    \/ LogoutOk(c)
    \/ \E status \in {401, 403} : RespondError(c, status)

RefreshResponds(c) == RefreshSucceeds(c) \/ RefreshFails(c)

NextLive ==
    \/ \E c \in Calls \cap (1 .. LiveCalls), url \in Urls : StartCall(c, url)
    \/ Handlers

LiveSpec ==
    /\ Init
    /\ [][NextLive]_vars
    /\ \A c \in Calls : WF_vars(Respond(c)) /\ WF_vars(RefreshResponds(c))
    /\ WF_vars(StepSetTokens)
    /\ WF_vars(StepProcessQueue)
    /\ WF_vars(StepRetry)
    /\ WF_vars(RunContinuation)

TypeOK ==
    /\ impl \in Impls
    /\ accessToken \in Tokens
    /\ sessionStorage \in Tokens
    /\ localStorage \in [accessToken : Tokens, refreshToken : BOOLEAN]
    /\ isRefreshing \in BOOLEAN
    /\ failedQueue \in Seq(Calls)
    /\ pc \in {"idle", "setTokens", "processQueue", "retry"}
    /\ newAccessToken \in Tokens
    /\ redirected \in BOOLEAN
    /\ current \in BOOLEAN

\* ------------------------------------------------------------ vocabulary

Pending == {"queued", "refreshing", "resuming", "released"}
Ended == {"ok", "rejectedOwn", "rejectedRefresh", "dropped"}

\* The calls whose refresh request is outstanding.
Refreshing == {c \in Calls : calls[c].st = "refreshing"}

\* The token the request interceptor of the instance will attach.
StoredToken == RequestToken(impl, accessToken, localStorage)

\* c is sent (or re-sent) in this step.
Sent(c) == calls'[c].sends > calls[c].sends

\* The page is loaded anew in this step.
Unloaded == \E c \in Calls : calls'[c].st = "dropped" /\ calls[c].st # "dropped"

\* ---------------------------------------------------------------- claims

\* C1: in every reachable state at most one refresh request (POST
\* /auth/refresh) is outstanding, however many calls received a 401.
C1_SingleFlight == Cardinality(Refreshing) <= 1

\* a second call got its 401 while the refresh of the first is outstanding
C1_Witness ==
    \E c, d \in Calls : calls[c].st = "refreshing" /\ calls[d].st = "queued"

C3_ReleaseOnce ==
    /\ [](/\ \A j, k \in 1 .. Len(failedQueue \o released) :
                LET all == [i \in 1 .. Len(failedQueue) |-> failedQueue[i]]
                           \o [i \in 1 .. Len(released) |-> released[i].call]
                IN  all[j] = all[k] => j = k
          /\ \A c \in Calls :
                /\ calls[c].st = "queued" <=>
                       \E k \in 1 .. Len(failedQueue) : failedQueue[k] = c
                /\ calls[c].st = "released" <=>
                       \E k \in 1 .. Len(released) : released[k].call = c
          /\ (~isRefreshing => failedQueue = << >>))
    /\ [][(failedQueue # << >> /\ failedQueue' # failedQueue
             /\ Len(failedQueue') <= Len(failedQueue) /\ ~Unloaded)
          => /\ failedQueue' = << >>
             /\ Len(released') = Len(released) + Len(failedQueue)
             /\ \A k \in 1 .. Len(failedQueue) :
                   LET r == released'[Len(released) + k] IN
                   /\ r.call = failedQueue[k]
                   /\ r.error = released'[Len(released) + 1].error
                   /\ r.token = released'[Len(released) + 1].token
                   /\ ~r.error => r.token = FRESH /\ r.token = newAccessToken]_vars

\* two continuations were queued and have just been resolved
C3_Witness ==
    /\ pc = "retry"
    /\ Len(released) = 2
    /\ failedQueue = << >>
    /\ ~released[1].error

\* C4: on a successful refresh the new token is in the token store before a
\* queued call is released and before the initiating call is re-sent, and
\* every call re-sent carries the new token.
C4_StoreBeforeRelease ==
    /\ [](/\ pc = "retry" => StoredToken = newAccessToken /\ StoredToken = FRESH
          /\ \A k \in 1 .. Len(released) :
                ~released[k].error => StoredToken = released[k].token)
    /\ [][\A c \in Calls :
            (Sent(c) /\ calls[c].sends >= 1) => calls'[c].auth = FRESH]_vars

\* the new token is stored, a queued call is released, the initiator is not
\* yet re-sent
C4_Witness ==
    /\ pc = "retry"
    /\ released # << >>
    /\ ~released[1].error
    /\ StoredToken = FRESH

\* C8: a 403 response is handed to the caller as it is: the call is not
\* queued, does not start a refresh and is not re-sent.
C8_ForbiddenIsFinal ==
    \A c \in Calls : calls[c].status = 403 => calls[c].st = "rejectedOwn"

\* a call was answered 403 while a refresh was running
C8_Witness ==
    \E c \in Calls : calls[c].status = 403 /\ isRefreshing

\* C5: after a successful refresh a call is re-sent exactly once: a call
\* that has been re-sent is never sent a third time, and when its re-send is
\* answered 401 it does not start or join another refresh.
C5_ResentOnce ==
    \A c \in Calls :
        /\ calls[c].sends <= 2
        /\ calls[c].sends >= 2 => calls[c].st \notin Pending

\* C6: a 401 response to a login call never starts a refresh, is never
\* queued and never re-sent; it is rejected to its caller as it is, without
\* clearing tokens or redirecting.
C6_LoginExcluded ==
    \A c \in Calls :
        calls[c].url = "login" => calls[c].st \notin Pending /\ calls[c].sends <= 1

\* C7: when the refresh request fails, the initiating call and every queued
\* call are rejected with the refresh error and not re-sent, the access
\* token is gone from memory, sessionStorage and localStorage, and the
\* client is redirected to the login page.
C7_RefreshFailureLogsOut ==
    [][\A c \in Calls :
          (calls[c].st = "refreshing" /\ calls'[c].st = "rejectedRefresh")
          => /\ accessToken' = NULL
             /\ sessionStorage' = NULL
             /\ localStorage'.accessToken = NULL
             /\ redirected'
             /\ failedQueue' = << >>
             /\ \A d \in Calls :
                   calls[d].st = "queued" => calls'[d].st = "released"
             /\ \A k \in 1 .. Len(released') : released'[k].error]_vars

\* C9: when a business call that was not retried is answered 401 while the
\* jwt cookie is valid and the identity is active, the call waits for a
\* refresh (it starts one or joins the running one) and the client is
\* neither logged out nor redirected.
C9_TransparentRefresh ==
    [][\A c \in Calls :
          (/\ calls[c].st = "sent" /\ calls[c].url = "business"
           /\ ~calls[c].retry
           /\ calls'[c].status = 401
           /\ cookieValid /\ isActive)
          => /\ calls'[c].st \in {"refreshing", "queued"}
             /\ redirected' = redirected
             /\ localStorage'.accessToken = localStorage.accessToken]_vars

\* C10: a call sent while the client holds a token it obtained by a login
\* or a successful refresh carries the token obtained last, also when the
\* in-memory variable was reset by a page load; a call is sent without an
\* Authorization header only when no store holds an access token.
C10_CarriesLatestToken ==
    [][\A c \in Calls :
          Sent(c) =>
             /\ current => calls'[c].auth = FRESH
             /\ calls'[c].auth = NULL =>
                   /\ accessToken = NULL
                   /\ sessionStorage = NULL
                   /\ localStorage.accessToken = NULL]_vars

\* ======================================================= the server side

\* UserRole (types).
Roles == {"USER", "MERCHANT", "ADMIN"}

\* Identities: an administrator, a merchant, a user, and a second
\* administrator x, who signed in with Google, registers, or is not in the
\* store.
Ids == {"a", "m", "u", "x"}

RoleOf(id) ==
    CASE id \in {"a", "x"} -> "ADMIN"
      [] id = "m" -> "MERCHANT"
      [] OTHER -> "USER"

Email(id) == id \o "@example.com"

\* The instants at which tokens are issued.
IssuedAt == {0, 899, 900, 604800}

\* The instants the clock takes: those, and the second before and the
\* second after the expiry of a refresh token issued at 0.
Instants == IssuedAt \cup {604799, 604801}

\* config.JWT_ACCESS_EXPIRY '15m' and config.JWT_REFRESH_EXPIRY '7d', in seconds.
AccessExpiry == 900
RefreshExpiry == 604800

\* The keys a token can be signed with: config.JWT_ACCESS_SECRET,
\* config.JWT_REFRESH_SECRET, and a key the server does not have.
Secrets == {"access", "refresh", "forged"}

\* JWTPayload, and the payload of a refresh token (userId only).
AccessPayload(id, role) == [userId |-> id, email |-> Email(id), role |-> role]
RefreshPayload(id) == [userId |-> id, email |-> "", role |-> ""]

\* SignOptions and VerifyOptions: issuer and audience.
Issuer == "secureauth-gateway"
Audience == "secureauth-api"

\* jwt.sign(payload, secret, {expiresIn, issuer, audience}) at time t: the
\* payload with the claims iat, exp, iss and aud, signed with the secret.
Sign(payload, secret, t, expiresIn) ==
    [payload |-> payload, secret |-> secret, iat |-> t, exp |-> t + expiresIn,
     iss |-> Issuer, aud |-> Audience]

\* generateAccessToken as it would be if it signed the identity without the role
generateAccessToken_NoRole(payload, t) ==
    Sign([payload EXCEPT !.role = ""], "access", t, AccessExpiry)

\* generateAccessToken as it would be with the lifetime of the refresh token
generateAccessToken_LongLived(payload, t) == Sign(payload, "access", t, RefreshExpiry)

generateAccessToken(payload, t) == Sign(payload, "access", t, AccessExpiry)

generateRefreshToken(payload, t) == Sign(payload, "refresh", t, RefreshExpiry)

\* The empty string where a token is expected.
Empty == Sign(RefreshPayload(""), "", 0, 0)

\* The tokens a request can carry: those the server generated at some
\* instant, and tokens signed with another key that claim the ADMIN role.
TokenValues ==
    {generateAccessToken(AccessPayload(id, RoleOf(id)), t) : id \in Ids, t \in IssuedAt}
    \cup {generateRefreshToken(RefreshPayload(id), t) : id \in Ids, t \in IssuedAt}
    \cup {Sign(AccessPayload("u", "ADMIN"), "forged", 0, RefreshExpiry + AccessExpiry),
          Sign(RefreshPayload("a"), "forged", 0, RefreshExpiry + AccessExpiry)}

\* req.user when nothing is attached.
NoUser == [userId |-> "", email |-> "", role |-> "", iat |-> 0, exp |-> 0,
           iss |-> "", aud |-> ""]

\* What jwt.verify returns: the payload with the registered claims.
Decoded(token) ==
    [userId |-> token.payload.userId, email |-> token.payload.email,
     role |-> token.payload.role, iat |-> token.iat, exp |-> token.exp,
     iss |-> token.iss, aud |-> token.aud]

\* jwt.verify as it would be if both secrets were the same key
Verify_OneSecret(token, secret, t) ==
    IF token.secret \notin {"access", "refresh"} THEN "JsonWebTokenError"
    ELSE IF t >= token.exp THEN "TokenExpiredError"
    ELSE IF token.aud # Audience \/ token.iss # Issuer THEN "JsonWebTokenError"
    ELSE "ok"

\* jwt.verify(token, secret, {issuer, audience}) at time t: the signature,
\* then the expiry, then audience and issuer.
Verify(token, secret, t) ==
    IF token.secret # secret THEN "JsonWebTokenError"
    ELSE IF t >= token.exp THEN "TokenExpiredError"
    ELSE IF token.aud # Audience \/ token.iss # Issuer THEN "JsonWebTokenError"
    ELSE "ok"

\* TokenService.verifyAccessToken: the decoded payload, or an AppError 401.
verifyAccessToken(token, t) ==
    LET v == Verify(token, "access", t) IN
    CASE v = "ok" -> [ok |-> TRUE, status |-> 0, message |-> "", decoded |-> Decoded(token)]
      [] v = "TokenExpiredError" ->
            [ok |-> FALSE, status |-> 401, message |-> "Access token has expired",
             decoded |-> NoUser]
      [] OTHER ->
            [ok |-> FALSE, status |-> 401, message |-> "Invalid access token",
             decoded |-> NoUser]

\* TokenService.verifyRefreshToken.
verifyRefreshToken(token, t) ==
    LET v == Verify(token, "refresh", t) IN
    CASE v = "ok" -> [ok |-> TRUE, status |-> 0, message |-> "", decoded |-> Decoded(token)]
      [] v = "TokenExpiredError" ->
            [ok |-> FALSE, status |-> 401,
             message |-> "Refresh token has expired. Please log in again.",
             decoded |-> NoUser]
      [] OTHER ->
            [ok |-> FALSE, status |-> 401, message |-> "Invalid refresh token",
             decoded |-> NoUser]

\* ------------------------------------------------- Authorization headers
\* req.headers.authorization: absent, or the string  scheme ' ' w1 ' ' w2 ...
\* (rest = << >>: the scheme alone, no space).
NoHeader == [present |-> FALSE, scheme |-> "", rest |-> << >>]

Header(scheme, rest) == [present |-> TRUE, scheme |-> scheme, rest |-> rest]

\* !authHeader || !authHeader.startsWith('Bearer ')
NotBearer(h) == ~h.present \/ h.scheme # "Bearer" \/ Len(h.rest) = 0

\* authHeader.split(' ')[1]
HeaderToken(h) == h.rest[1]

Headers ==
    {NoHeader, Header("", << >>), Header("Bearer", << >>), Header("Bearer", <<Empty>>)}
    \cup {Header(sc, <<tk>>) : sc \in {"Bearer", "Basic"}, tk \in TokenValues}
    \cup {Header("Bearer", <<Empty, tk>>) : tk \in TokenValues}
    \cup {Header("Bearer", <<tk, Empty>>) : tk \in TokenValues}

\* ------------------------------------------------------------ middleware
\* What a middleware did with a request: next() was called without an
\* error, or the error it passed on (status, message), the identity it left
\* in req.user, and the number of queries it made to the credential store.

\* protect as it would be if it looked the identity up in the store
protect_Lookup(h, t) ==
    IF NotBearer(h) \/ HeaderToken(h) = Empty \/ ~verifyAccessToken(HeaderToken(h), t).ok
    THEN [next |-> FALSE, status |-> 401, message |-> "Authentication required",
          user |-> NoUser, reads |-> 0]
    ELSE [next |-> TRUE, status |-> 0, message |-> "",
          user |-> verifyAccessToken(HeaderToken(h), t).decoded, reads |-> 1]

\* protect (auth.middleware.ts)
protect(h, t) ==
    IF NotBearer(h)
    THEN [next |-> FALSE, status |-> 401,
          message |-> "Authentication required. Please provide a valid access token.",
          user |-> NoUser, reads |-> 0]
    ELSE IF HeaderToken(h) = Empty
    THEN [next |-> FALSE, status |-> 401, message |-> "Access token is missing",
          user |-> NoUser, reads |-> 0]
    ELSE LET v == verifyAccessToken(HeaderToken(h), t) IN
         IF v.ok
         THEN [next |-> TRUE, status |-> 0, message |-> "", user |-> v.decoded,
               reads |-> 0]
         ELSE [next |-> FALSE, status |-> v.status, message |-> v.message,
               user |-> NoUser, reads |-> 0]

\* optionalAuth as it would be if it passed the verification error on
optionalAuth_Strict(h, t) ==
    IF NotBearer(h) \/ HeaderToken(h) = Empty
    THEN [next |-> TRUE, status |-> 0, message |-> "", user |-> NoUser, reads |-> 0]
    ELSE protect(h, t)

\* optionalAuth (auth.middleware.ts)
optionalAuth(h, t) ==
    IF NotBearer(h) \/ HeaderToken(h) = Empty
    THEN [next |-> TRUE, status |-> 0, message |-> "", user |-> NoUser, reads |-> 0]
    ELSE LET v == verifyAccessToken(HeaderToken(h), t) IN
         [next |-> TRUE, status |-> 0, message |-> "",
          user |-> IF v.ok THEN v.decoded ELSE NoUser, reads |-> 0]

\* allowedRoles.includes(role)
Includes(allowedRoles, role) ==
    \E i \in 1 .. Len(allowedRoles) : allowedRoles[i] = role

\* The role hierarchy USER < MERCHANT < ADMIN of requireRoleLevel.
roleHierarchy(role) ==
    CASE role = "USER" -> 1 [] role = "MERCHANT" -> 2 [] role = "ADMIN" -> 3 [] OTHER -> 0

\* restrictTo as it would be with hierarchical roles (requireRoleLevel)
restrictTo_Hierarchy(allowedRoles, user) ==
    IF user = NoUser
    THEN [next |-> FALSE, status |-> 401,
          message |-> "Authentication required. Please log in first.",
          roles |-> << >>]
    ELSE IF \E i \in 1 .. Len(allowedRoles) :
                roleHierarchy(user.role) >= roleHierarchy(allowedRoles[i])
    THEN [next |-> TRUE, status |-> 0, message |-> "", roles |-> << >>]
    ELSE [next |-> FALSE, status |-> 403,
          message |-> "Access denied. This action requires one of the following roles: ",
          roles |-> allowedRoles]

\* restrictTo(...allowedRoles) (rbac.middleware.ts); the message of the 403
\* ends with allowedRoles.join(', '), kept in roles.
restrictTo(allowedRoles, user) ==
    IF user = NoUser
    THEN [next |-> FALSE, status |-> 401,
          message |-> "Authentication required. Please log in first.",
          roles |-> << >>]
    ELSE IF ~Includes(allowedRoles, user.role)
    THEN [next |-> FALSE, status |-> 403,
          message |-> "Access denied. This action requires one of the following roles: ",
          roles |-> allowedRoles]
    ELSE [next |-> TRUE, status |-> 0, message |-> "", roles |-> << >>]

\* requireAdmin, requireMerchant and the allow-lists of the routes
requireAdmin == <<"ADMIN">>
requireMerchant == <<"MERCHANT", "ADMIN">>

\* The names of path parameters, and req.params (a parameter the route does
\* not have, or an empty one, is "").
ParamNames == {"userId", "id"}
Params == [ParamNames -> {"", "a", "u"}]

\* checkOwnership as it would be if it read the parameter before the role
checkOwnership_ParamFirst(resourceParam, user, params) ==
    IF user = NoUser
    THEN [next |-> FALSE, status |-> 401, message |-> "Authentication required"]
    ELSE IF params[resourceParam] = ""
    THEN [next |-> FALSE, status |-> 400, message |-> "Resource identifier not found in request"]
    ELSE IF user.role = "ADMIN" \/ user.userId = params[resourceParam]
    THEN [next |-> TRUE, status |-> 0, message |-> ""]
    ELSE [next |-> FALSE, status |-> 403,
          message |-> "Access denied. You can only access your own resources."]

\* checkOwnership(resourceParam) (rbac.middleware.ts)
checkOwnership(resourceParam, user, params) ==
    IF user = NoUser
    THEN [next |-> FALSE, status |-> 401, message |-> "Authentication required"]
    ELSE IF user.role = "ADMIN"
    THEN [next |-> TRUE, status |-> 0, message |-> ""]
    ELSE IF params[resourceParam] = ""
    THEN [next |-> FALSE, status |-> 400, message |-> "Resource identifier not found in request"]
    ELSE IF user.userId # params[resourceParam]
    THEN [next |-> FALSE, status |-> 403,
          message |-> "Access denied. You can only access your own resources."]
    ELSE [next |-> TRUE, status |-> 0, message |-> ""]

\* The client with nothing started.
ClientAtRest ==
    /\ impl = "apiClient"
    /\ accessToken = NULL
    /\ sessionStorage = NULL
    /\ localStorage = [accessToken |-> NULL, refreshToken |-> FALSE]
    /\ isRefreshing = FALSE
    /\ failedQueue = << >>
    /\ calls = [c \in Calls |-> NewCall]
    /\ pc = "idle"
    /\ newAccessToken = NULL
    /\ released = << >>
    /\ redirected = FALSE
    /\ cookieValid = FALSE
    /\ isActive = TRUE
    /\ current = FALSE

\* The identities a request can have attached: none, or the claims of a
\* verified token with any role.
Users ==
    {NoUser} \cup {[userId |-> id, email |-> Email(id), role |-> r, iat |-> 0,
                    exp |-> AccessExpiry, iss |-> Issuer, aud |-> Audience] :
                       id \in {"a", "u"}, r \in Roles}

\* The allow-lists restrictTo can be called with.
AllowLists ==
    {<< >>} \cup {<<r>> : r \in Roles} \cup {<<r, q>> : r \in Roles, q \in Roles}

\* Time passes to the next instant.
Tick ==
    /\ \E t \in Instants :
          /\ t > now
          /\ \A u \in Instants : u > now => t <= u
          /\ now' = t
    /\ UNCHANGED << client, signup, mw, api >>

\* A request passes through protect.
ApplyProtect(h) ==
    /\ mw' = [fn |-> "protect", header |-> h, at |-> now,
              out |-> protect(h, now)]
    /\ UNCHANGED << client, signup, now, api >>

\* A request passes through optionalAuth.
ApplyOptionalAuth(h) ==
    /\ mw' = [fn |-> "optionalAuth", header |-> h, at |-> now,
              out |-> optionalAuth(h, now)]
    /\ UNCHANGED << client, signup, now, api >>

\* A request with this identity attached passes through restrictTo(...).
ApplyRestrictTo(allowedRoles, user) ==
    /\ mw' = [fn |-> "restrictTo", allowedRoles |-> allowedRoles, user |-> user,
              out |-> restrictTo(allowedRoles, user)]
    /\ UNCHANGED << client, signup, now, api >>

\* A request with this identity attached passes through checkOwnership(...).
ApplyCheckOwnership(resourceParam, user, params) ==
    /\ mw' = [fn |-> "checkOwnership", resourceParam |-> resourceParam,
              user |-> user, params |-> params,
              out |-> checkOwnership(resourceParam, user, params)]
    /\ UNCHANGED << client, signup, now, api >>

\* The (identityId, email, role) a token can be generated for.
Claims ==
    [userId : {"a", "u"}, email : {"a@example.com", "other@example.com"},
     role : {"USER", "ADMIN"}]

\* The token TokenService generated for these claims at time iat, as an
\* access token or as a refresh token (userId only).
Issue(gen, payload, iat) ==
    IF gen = "access" THEN generateAccessToken(payload, iat)
    ELSE generateRefreshToken(RefreshPayload(payload.userId), iat)

\* A token generated at iat is given to verifyAccessToken now.
ApplyVerifyAccessToken(gen, payload, iat) ==
    /\ iat <= now
    /\ mw' = [fn |-> "verifyAccessToken", gen |-> gen, payload |-> payload,
              iat |-> iat, at |-> now,
              out |-> verifyAccessToken(Issue(gen, payload, iat), now)]
    /\ UNCHANGED << client, signup, now, api >>

\* A token generated at iat is given to verifyRefreshToken now.
ApplyVerifyRefreshToken(gen, payload, iat) ==
    /\ iat <= now
    /\ mw' = [fn |-> "verifyRefreshToken", gen |-> gen, payload |-> payload,
              iat |-> iat, at |-> now,
              out |-> verifyRefreshToken(Issue(gen, payload, iat), now)]
    /\ UNCHANGED << client, signup, now, api >>

\* ---------------------------------------------------- the error boundary
\* new AppError(message, statusCode = 500)
AppError(message, statusCode) ==
    [isAppError |-> TRUE, message |-> message, statusCode |-> statusCode]

\* Any other exception; some carry a status of their own (body-parser's).
Exception(message, statusCode) ==
    [isAppError |-> FALSE, message |-> message, statusCode |-> statusCode]

\* The errors a handler or a middleware raises.
Errors ==
    {AppError("Invalid email or password", 401),
     AppError("User not found", 404),
     AppError("Token verification failed", 500)}
    \cup {Exception("E11000 duplicate key error collection: users index: email_1", 0),
          Exception("User validation failed: username: Username must be at least 3 characters", 0),
          Exception("Unexpected token } in JSON at position 12", 400)}

\* process.env.NODE_ENV
Environments == {"development", "production", "test", ""}

\* err.stack: the name and message of the error, then the frames.
Stack(err) == [present |-> TRUE, message |-> err.message]
NoStack == [present |-> FALSE, message |-> ""]

\* errorHandler as it would be if it passed every error's message on
errorHandler_Leaky(err, env) ==
    [status |-> IF err.isAppError THEN err.statusCode ELSE 500,
     message |-> err.message,
     error |-> IF env = "development" THEN Stack(err) ELSE NoStack]

\* errorHandler: the response sendError writes (status, message, error).
errorHandler(err, env) ==
    [status |-> IF err.isAppError THEN err.statusCode ELSE 500,
     message |-> IF err.isAppError THEN err.message ELSE "Internal Server Error",
     error |-> IF env = "development" THEN Stack(err) ELSE NoStack]

\* asyncHandler(fn): Promise.resolve(fn(req, res, next)).catch(next); the
\* errors it passes to next when fn's promise rejects with err.
asyncHandler(err) == <<err>>

\* try { ... } catch (error) { next(error) } of a middleware.
catchNext(err) == <<err>>

\* app.use(errorHandler): one response for each error passed to next.
Boundary(passed, env) == [i \in 1 .. Len(passed) |-> errorHandler(passed[i], env)]

\* A route handler (wrapped in asyncHandler) or a middleware raises err.
ApplyErrorHandler(raisedIn, err, env) ==
    /\ mw' = [fn |-> "errorHandler", raisedIn |-> raisedIn, err |-> err, env |-> env,
              out |-> Boundary(IF raisedIn = "handler" THEN asyncHandler(err)
                               ELSE catchNext(err), env)]
    /\ UNCHANGED << client, signup, now, api >>

\* res.cookie(name, value, options), or no Set-Cookie header.
NoCookie ==
    [set |-> FALSE, name |-> "", value |-> Empty, httpOnly |-> FALSE,
     secure |-> FALSE, sameSite |-> "", maxAge |-> 0]

SetCookie(name, value, options) ==
    [set |-> TRUE, name |-> name, value |-> value, httpOnly |-> options.httpOnly,
     secure |-> options.secure, sameSite |-> options.sameSite,
     maxAge |-> options.maxAge]

\* maxAge of the refresh cookie: 7 * 24 * 60 * 60 * 1000 ms
CookieMaxAge == 604800000

\* config.NODE_ENV: process.env.NODE_ENV || 'development'
configNodeEnv(env) == IF env = "" THEN "development" ELSE env

\* process.env.ALLOW_INSECURE_COOKIES: unset (""), 'true', or another string
InsecureSettings == {"", "true", "false", "1"}

\* cookieOptions of register
registerCookieOptions(env, allowInsecure) ==
    [httpOnly |-> TRUE,
     secure |-> IF allowInsecure = "true" THEN FALSE
                ELSE configNodeEnv(env) = "production",
     sameSite |-> IF allowInsecure = "true" THEN "lax"
                  ELSE IF configNodeEnv(env) = "production" THEN "none"
                  ELSE "lax",
     maxAge |-> CookieMaxAge]

\* cookieOptions of login as it would be if only secure followed
\* ALLOW_INSECURE_COOKIES
loginCookieOptions_NoneOverHttp(env, allowInsecure) ==
    [httpOnly |-> TRUE,
     secure |-> IF allowInsecure = "true" THEN FALSE
                ELSE configNodeEnv(env) = "production",
     sameSite |-> IF configNodeEnv(env) = "production" THEN "none" ELSE "lax",
     maxAge |-> CookieMaxAge]

\* cookieOptions of login
loginCookieOptions(env, allowInsecure) ==
    [httpOnly |-> TRUE,
     secure |-> IF allowInsecure = "true" THEN FALSE
                ELSE configNodeEnv(env) = "production",
     sameSite |-> IF allowInsecure = "true" THEN "lax"
                  ELSE IF configNodeEnv(env) = "production" THEN "none"
                  ELSE "lax",
     maxAge |-> CookieMaxAge]

\* The options logout clears the cookie with: those of login, then
\* sameSite: 'strict' and maxAge: 0.
logoutCookieOptions(env, allowInsecure) ==
    [loginCookieOptions(env, allowInsecure) EXCEPT !.sameSite = "strict", !.maxAge = 0]

\* The deployment the API runs are served in: NODE_ENV and
\* ALLOW_INSECURE_COOKIES are not set.
NODE_ENV == ""
ALLOW_INSECURE_COOKIES == ""

\* register or login sets the jwt cookie under a configuration.
ApplyCookieOptions(handler, env, allowInsecure) ==
    /\ mw' = [fn |-> "cookieOptions", handler |-> handler, env |-> env,
              allowInsecure |-> allowInsecure,
              out |-> SetCookie("jwt", Empty,
                                IF handler = "register"
                                THEN registerCookieOptions(env, allowInsecure)
                                ELSE loginCookieOptions(env, allowInsecure))]
    /\ UNCHANGED << client, signup, now, api >>

MiddlewareInit == ClientAtRest /\ ServerAtRest

MiddlewareNext ==
    \/ Tick
    \/ \E h \in Headers : ApplyProtect(h)
    \/ \E h \in Headers : ApplyOptionalAuth(h)
    \/ \E allowedRoles \in AllowLists, user \in Users :
          ApplyRestrictTo(allowedRoles, user)
    \/ \E resourceParam \in ParamNames, user \in Users, params \in Params :
          ApplyCheckOwnership(resourceParam, user, params)
    \/ \E gen \in {"access", "refresh"}, payload \in Claims, iat \in IssuedAt :
          ApplyVerifyAccessToken(gen, payload, iat)
    \/ \E gen \in {"access", "refresh"}, payload \in Claims, iat \in IssuedAt :
          ApplyVerifyRefreshToken(gen, payload, iat)
    \/ \E raisedIn \in {"handler", "middleware"}, err \in Errors, env \in Environments :
          ApplyErrorHandler(raisedIn, err, env)
    \/ \E handler \in {"register", "login"}, env \in Environments,
          allowInsecure \in InsecureSettings :
          ApplyCookieOptions(handler, env, allowInsecure)

MiddlewareSpec == MiddlewareInit /\ [][MiddlewareNext]_vars

\* ---------------------------------------------------------------- the API

\* the Transaction collection holds at most this many documents
MaxTxns == 1

\* sendSuccess: status, message, the accessToken of the body (if any), the
\* cookie set, and the list the body carries (if any).
Success(status, message, token, cookie, data) ==
    [status |-> status, message |-> message, accessToken |-> token,
     cookie |-> cookie, data |-> data]

\* An AppError thrown in a handler or passed to next: errorHandler answers
\* with its statusCode and message.
Failure(status, message) ==
    [status |-> status, message |-> message, accessToken |-> Empty,
     cookie |-> NoCookie, data |-> << >>]

\* An error that is not an AppError, as errorHandler answers it.
InternalError == Failure(500, "Internal Server Error")

\* email.toLowerCase()
toLowerCase(email) ==
    CASE email = "M@EXAMPLE.COM" -> "m@example.com"
      [] email = "X@EXAMPLE.COM" -> "x@example.com"
      [] email = "New@Example.com" -> "new@example.com"
      [] OTHER -> email

\* The password an identity registered with.
Password(id) == id \o "-password"

\* User.findOne({ email, provider: 'local' })
FindLocal(db, email) ==
    {id \in Ids : db[id].exists /\ db[id].provider = "local" /\ Email(id) = email}

\* user.comparePassword(candidate): false for an identity without password
comparePassword(db, id, candidate) ==
    db[id].provider = "local" /\ candidate = Password(id)

\* login as it would be if it tested isActive before the password
login_ActiveFirst(body, db, t) ==
    IF body.email = "" \/ body.password = ""
    THEN Failure(400, "Please provide email and password")
    ELSE LET found == FindLocal(db, toLowerCase(body.email)) IN
         IF found = {}
         THEN Failure(401, "Invalid email or password")
         ELSE LET id == CHOOSE i \in found : TRUE IN
              IF ~db[id].isActive
              THEN Failure(403, "Your account has been deactivated. Please contact support.")
              ELSE IF ~comparePassword(db, id, body.password)
              THEN Failure(401, "Invalid email or password")
              ELSE Success(200, "Login successful",
                           generateAccessToken(AccessPayload(id, RoleOf(id)), t),
                           SetCookie("jwt", generateRefreshToken(RefreshPayload(id), t),
                                     loginCookieOptions(NODE_ENV, ALLOW_INSECURE_COOKIES)),
                           << >>)

\* AuthController.login
login(body, db, t) ==
    IF body.email = "" \/ body.password = ""
    THEN Failure(400, "Please provide email and password")
    ELSE LET found == FindLocal(db, toLowerCase(body.email)) IN
         IF found = {}
         THEN Failure(401, "Invalid email or password")
         ELSE LET id == CHOOSE i \in found : TRUE IN
              IF ~comparePassword(db, id, body.password)
              THEN Failure(401, "Invalid email or password")
              ELSE IF ~db[id].isActive
              THEN Failure(403, "Your account has been deactivated. Please contact support.")
              ELSE Success(200, "Login successful",
                           generateAccessToken(AccessPayload(id, RoleOf(id)), t),
                           SetCookie("jwt", generateRefreshToken(RefreshPayload(id), t),
                                     loginCookieOptions(NODE_ENV, ALLOW_INSECURE_COOKIES)),
                           << >>)

\* AuthController.logout
logout ==
    Success(200, "Logout successful", Empty,
            SetCookie("jwt", Empty, logoutCookieOptions(NODE_ENV, ALLOW_INSECURE_COOKIES)),
            << >>)

\* refreshToken as it would be without the isActive check
RefreshWith_NoActiveCheck(token, db, t) ==
    LET v == verifyRefreshToken(token, t) IN
    IF ~v.ok
    THEN Failure(v.status, v.message)
    ELSE IF ~db[v.decoded.userId].exists
    THEN Failure(401, "User no longer exists. Please log in again.")
    ELSE Success(200, "Token refreshed successfully",
                 generateAccessToken(AccessPayload(v.decoded.userId,
                                                   RoleOf(v.decoded.userId)), t),
                 NoCookie, << >>)

\* What refreshToken does once it has a token to verify.
RefreshWith(token, db, t) ==
    LET v == verifyRefreshToken(token, t) IN
    IF ~v.ok
    THEN Failure(v.status, v.message)
    ELSE IF ~db[v.decoded.userId].exists
    THEN Failure(401, "User no longer exists. Please log in again.")
    ELSE IF ~db[v.decoded.userId].isActive
    THEN Failure(403, "Your account has been deactivated. Please contact support.")
    ELSE Success(200, "Token refreshed successfully",
                 generateAccessToken(AccessPayload(v.decoded.userId,
                                                   RoleOf(v.decoded.userId)), t),
                 NoCookie, << >>)

\* refreshToken as it would be if it fell back to the token of the body
refreshToken_FromBody(req, db, t) ==
    IF req.jwt # Empty THEN RefreshWith(req.jwt, db, t)
    ELSE IF req.body.refreshToken # Empty THEN RefreshWith(req.body.refreshToken, db, t)
    ELSE Failure(401, "Refresh token not found. Please log in again.")

\* refreshToken as it would be if it rotated the refresh token
refreshToken_Rotate(req, db, t) ==
    IF req.jwt = Empty
    THEN Failure(401, "Refresh token not found. Please log in again.")
    ELSE LET r == RefreshWith(req.jwt, db, t) IN
         IF r.status # 200 THEN r
         ELSE [r EXCEPT !.cookie =
                  SetCookie("jwt", generateRefreshToken(RefreshPayload(req.jwt.payload.userId), t),
                            loginCookieOptions(NODE_ENV, ALLOW_INSECURE_COOKIES))]

\* AuthController.refreshToken: req.cookies?.jwt
refreshToken(req, db, t) ==
    IF req.jwt = Empty
    THEN Failure(401, "Refresh token not found. Please log in again.")
    ELSE RefreshWith(req.jwt, db, t)

\* req.cookies of the request a browser sends after a response that set this
\* cookie: the cookie comes back under the name it was set with.
CookieNames == {"jwt", "refreshToken"}

CookiesAfter(cookie) ==
    [n \in CookieNames |-> IF cookie.set /\ cookie.name = n THEN cookie.value ELSE Empty]

\* The middleware verifyRefreshToken (auth.middleware.ts): it reads
\* req.cookies?.refreshToken.
verifyRefreshTokenCookie(cookies, t) ==
    IF cookies["refreshToken"] = Empty
    THEN [next |-> FALSE, status |-> 401,
          message |-> "Refresh token not found. Please log in again.", user |-> NoUser]
    ELSE LET v == verifyRefreshToken(cookies["refreshToken"], t) IN
         IF v.ok
         THEN [next |-> TRUE, status |-> 0, message |-> "", user |-> v.decoded]
         ELSE [next |-> FALSE, status |-> v.status, message |-> v.message,
               user |-> NoUser]

\* the routes as they would be with the role check left out
Guard_NoRoleCheck(header, allowedRoles, t) ==
    LET p == protect(header, t) IN
    [next |-> p.next, status |-> p.status, message |-> p.message, user |-> p.user]

\* The middleware of a protected route: protect, then restrictTo(...).
Guard(header, allowedRoles, t) ==
    LET p == protect(header, t) IN
    IF ~p.next
    THEN [next |-> FALSE, status |-> p.status, message |-> p.message, user |-> NoUser]
    ELSE LET r == restrictTo(allowedRoles, p.user) IN
         [next |-> r.next, status |-> r.status, message |-> r.message, user |-> p.user]

\* getHistory as it would be with Transaction.find() for every role
getHistory_FindAll(user, coll) ==
    IF user.role = "USER"
    THEN Failure(403, "Access denied. Users do not have transaction privileges.")
    ELSE Success(200, "Transaction history retrieved successfully", Empty, NoCookie, coll)

\* TransactionController.getHistory: what it reads from the collection
getHistory(user, coll) ==
    IF user.role = "USER"
    THEN Failure(403, "Access denied. Users do not have transaction privileges.")
    ELSE Success(200, "Transaction history retrieved successfully", Empty, NoCookie,
                 IF user.role = "ADMIN" THEN coll
                 ELSE SelectSeq(coll, LAMBDA merchantId : merchantId = user.userId))

\* The :id of a path: user._id.toString() of an identity (hexadecimal, lower
\* case), the same digits in upper case ("A" for the administrator's), or a
\* string that is no ObjectId ("zz").
PathIds == {"a", "m", "x", "A", "zz"}

\* The cast of findById: a string of hexadecimal digits in either case
\* denotes the ObjectId; any other string is refused (CastError).
IsObjectId(id) == id # "zz"

castObjectId(id) ==
    IF id = "A" THEN "a" ELSE id

\* updateUserStatus as it would be without the administrator check
updateUserStatus_BanAdmins(user, id, active, db) ==
    IF active \notin {"true", "false"}
    THEN [res |-> Failure(400, "isActive must be a boolean value"), users |-> db]
    ELSE IF id = user.userId
    THEN [res |-> Failure(400, "Admins cannot ban themselves"), users |-> db]
    ELSE IF ~IsObjectId(id)
    THEN [res |-> InternalError, users |-> db]
    ELSE IF ~db[castObjectId(id)].exists
    THEN [res |-> Failure(404, "User not found"), users |-> db]
    ELSE [res |-> Success(200, IF active = "true" THEN "User activated successfully"
                               ELSE "User banned successfully",
                          Empty, NoCookie, << >>),
          users |-> [db EXCEPT ![castObjectId(id)].isActive = (active = "true")]]

\* UserController.updateUserStatus: the response and the store after it.
\* The self check compares the path string; findById casts it.
updateUserStatus(user, id, active, db) ==
    IF active \notin {"true", "false"}
    THEN [res |-> Failure(400, "isActive must be a boolean value"), users |-> db]
    ELSE IF id = user.userId
    THEN [res |-> Failure(400, "Admins cannot ban themselves"), users |-> db]
    ELSE IF ~IsObjectId(id)
    THEN [res |-> InternalError, users |-> db]
    ELSE IF ~db[castObjectId(id)].exists
    THEN [res |-> Failure(404, "User not found"), users |-> db]
    ELSE IF RoleOf(castObjectId(id)) = "ADMIN" /\ active = "false"
    THEN [res |-> Failure(403, "Cannot ban other administrators"), users |-> db]
    ELSE [res |-> Success(200, IF active = "true" THEN "User activated successfully"
                               ELSE "User banned successfully",
                          Empty, NoCookie, << >>),
          users |-> [db EXCEPT ![castObjectId(id)].isActive = (active = "true")]]

\* The tokens a request can carry at time t: those issued at 0 or at 900 and
\* not after t, and the forged ones.
ApiTokens(t) == {tk \in TokenValues : tk.iat \in {0, 900} /\ tk.iat <= t}

\* The credentials of a request at time t: no header, or a Bearer header
\* with an access token of the administrator, the merchant or the user, a
\* refresh token, or a forged token.
ApiHeaders(t) ==
    {NoHeader}
    \cup {Header("Bearer", <<tk>>) :
            tk \in {k \in ApiTokens(t) :
                      \/ k.secret = "access" /\ k.payload.userId \in {"a", "m", "u"}
                      \/ k.secret = "forged" /\ k.payload.role = "ADMIN"
                      \/ k = generateRefreshToken(RefreshPayload("m"), 0)}}

\* The jwt cookie of a request at time t: none, a refresh token of the
\* merchant or of the identity x, an access token, or a forged token.
ApiCookies(t) ==
    {Empty}
    \cup {k \in ApiTokens(t) :
            \/ k.secret = "refresh" /\ k.payload.userId \in {"m", "x"}
            \/ k.secret = "forged" /\ k.payload.role = ""
            \/ k = generateAccessToken(AccessPayload("m", "MERCHANT"), 0)}

\* The bodies of login requests.
LoginBodies ==
    [email : {"", "a@example.com", "m@example.com", "M@EXAMPLE.COM", "x@example.com"},
     password : {"", "a-password", "m-password"}]

\* The exchange served: the operation, the time, the request, the response,
\* and whether the route's handler ran.
Exchange(op, t, req, res, handled) ==
    [op |-> op, at |-> t, req |-> req, res |-> res, handled |-> handled]

\* role && validRoles.includes(role) ? role : UserRole.USER
userRole(role) == IF role \in Roles THEN role ELSE "USER"

\* register, 4. to 6.: the 201 response for the stored document
registerSuccess(user, t) ==
    Success(201, "Registration successful",
            generateAccessToken([userId |-> user.id, email |-> user.email,
                                 role |-> user.role], t),
            SetCookie("jwt", generateRefreshToken(RefreshPayload(user.id), t),
                      registerCookieOptions(NODE_ENV, ALLOW_INSECURE_COOKIES)),
            << >>)

\* POST /auth/register with the email and the role of an identity and a
\* valid username and password, served without interruption: refused when
\* the collection holds the email, else the document is created (provider
\* local, isActive true by default) and the tokens are issued.
Register(id) ==
    LET req == [body |-> [email |-> Email(id), role |-> RoleOf(id)]] IN
    /\ IF users[id].exists
       THEN /\ last' = Exchange("register", now, req,
                                Failure(400, "An account with this email already exists"),
                                TRUE)
            /\ UNCHANGED users
       ELSE /\ users' = [users EXCEPT ![id] = UserDoc("local", TRUE)]
            /\ last' = Exchange("register", now, req,
                                registerSuccess([id |-> id, email |-> Email(id),
                                                 role |-> userRole(RoleOf(id))], now),
                                TRUE)
    /\ UNCHANGED << client, signup, now, mw, txns, deactivated >>

\* POST /auth/login
Login(body) ==
    /\ last' = Exchange("login", now, [body |-> body], login(body, users, now), TRUE)
    /\ UNCHANGED << client, signup, now, mw, users, txns, deactivated >>

\* The credentials a logout request carries: none, or an access token.
LogoutHeaders ==
    {NoHeader, Header("Bearer", <<generateAccessToken(AccessPayload("m", "MERCHANT"), 0)>>)}

\* the logout route as it would be behind protect
LogoutRoute_Protected(header, t) ==
    LET p == protect(header, t) IN
    IF p.next THEN logout ELSE Failure(p.status, p.message)

\* router.post('/logout', AuthController.logout): no middleware before the
\* handler, which does not read the request.
LogoutRoute(header, t) == logout

\* POST /auth/logout
Logout(header) ==
    /\ last' = Exchange("logout", now, [header |-> header], LogoutRoute(header, now), TRUE)
    /\ UNCHANGED << client, signup, now, mw, users, txns, deactivated >>

\* POST /auth/refresh
Refresh(req) ==
    /\ last' = Exchange("refresh", now, req, refreshToken(req, users, now), TRUE)
    /\ UNCHANGED << client, signup, now, mw, users, txns, deactivated >>

\* POST /transaction/simulate with a body that is valid or not; the payment
\* gateway accepts or declines (Math.random() < 0.9).
Simulate(header, valid, isSuccess) ==
    LET g == Guard(header, requireMerchant, now)
        req == [header |-> header, body |-> [valid |-> valid]] IN
    /\ Len(txns) < MaxTxns
    /\ IF ~g.next
       THEN /\ last' = Exchange("simulate", now, req, Failure(g.status, g.message), FALSE)
            /\ UNCHANGED txns
       ELSE IF ~valid
       THEN /\ last' = Exchange("simulate", now, req,
                                Failure(400, "Please provide amount, currency, and customerEmail"),
                                TRUE)
            /\ UNCHANGED txns
       ELSE /\ txns' = Append(txns, g.user.userId)
            /\ last' = Exchange("simulate", now, req,
                                IF isSuccess
                                THEN Success(201, "Transaction processed successfully",
                                             Empty, NoCookie, << >>)
                                ELSE Failure(402, "Transaction declined by payment gateway."),
                                TRUE)
    /\ UNCHANGED << client, signup, now, mw, users, deactivated >>

\* GET /transaction/history
History(header) ==
    LET g == Guard(header, requireMerchant, now)
        req == [header |-> header] IN
    /\ last' = IF g.next
               THEN Exchange("history", now, req, getHistory(g.user, txns), TRUE)
               ELSE Exchange("history", now, req, Failure(g.status, g.message), FALSE)
    /\ UNCHANGED << client, signup, now, mw, users, txns, deactivated >>

\* GET /users
GetAllUsers(header) ==
    LET g == Guard(header, requireAdmin, now)
        req == [header |-> header] IN
    /\ last' = IF g.next
               THEN Exchange("users", now, req,
                             Success(200, "Users retrieved successfully", Empty, NoCookie,
                                     << >>), TRUE)
               ELSE Exchange("users", now, req, Failure(g.status, g.message), FALSE)
    /\ UNCHANGED << client, signup, now, mw, users, txns, deactivated >>

\* PATCH /users/:id/status
UpdateUserStatus(header, id, active) ==
    LET g == Guard(header, requireAdmin, now)
        req == [header |-> header, id |-> id, body |-> [isActive |-> active]]
        r == updateUserStatus(g.user, id, active, users) IN
    /\ IF g.next
       THEN /\ last' = Exchange("status", now, req, r.res, TRUE)
            /\ users' = r.users
            /\ deactivated' = deactivated \cup
                                  {i \in Ids : users[i].isActive /\ ~r.users[i].isActive}
       ELSE /\ last' = Exchange("status", now, req, Failure(g.status, g.message), FALSE)
            /\ UNCHANGED << users, deactivated >>
    /\ UNCHANGED << client, signup, now, mw, txns >>

\* The path and the body of the status updates: every path with isActive
\* true and false, and a body whose isActive is the string 'yes'.
StatusInputs == (PathIds \X {"true", "false"}) \cup {<<"m", "yes">>}

\* The status updates served at time t: every credential with one path and
\* body, and every path and body with the credentials that reach the
\* handler (the route refuses the others before it reads either).
StatusRequests(t) ==
    {request \in ApiHeaders(t) \X StatusInputs :
        request[2] = <<"m", "false">> \/ Guard(request[1], requireAdmin, t).next}

\* The instants of the API runs: the issue of a token, the expiry of an
\* access token issued at 0 and that of a refresh token issued at 0.
ApiInstants == {0, AccessExpiry, RefreshExpiry}

\* The clock of the API runs.
ApiTick ==
    /\ \E t \in ApiInstants :
          /\ t > now
          /\ \A u \in ApiInstants : u > now => t <= u
          /\ now' = t
    /\ UNCHANGED << client, signup, mw, api >>

\* The requests to POST /auth/refresh: any token (or none) in the jwt
\* cookie, and possibly a valid refresh token in the body.
RefreshRequests(t) ==
    [jwt : ApiCookies(t),
     body : [refreshToken : {Empty, generateRefreshToken(RefreshPayload("m"), 0)}]]

\* The store holds the administrator, the merchant and the user; the
\* identity x was deleted, or signed in with Google.
ApiInit ==
    /\ ClientAtRest
    /\ now = 0
    /\ mw = NoMiddleware
    /\ users \in {[SeedUsers EXCEPT !["x"] = d] : d \in {NoDoc, UserDoc("google", TRUE)}}
    /\ txns = << >>
    /\ last = NoRequest
    /\ deactivated = {}
    /\ accounts = << >>
    /\ registrations = [r \in 1..NumRegistrations |-> NoRegistration]
    /\ requests = [h \in {"login", "refresh", "status"} |-> NoRegistration]

ApiNext ==
    \/ ApiTick
    \/ \E id \in {"m", "x"} : Register(id)
    \/ \E body \in LoginBodies : Login(body)
    \/ \E header \in LogoutHeaders : Logout(header)
    \/ \E req \in RefreshRequests(now) : Refresh(req)
    \/ \E header \in ApiHeaders(now), valid \in BOOLEAN, isSuccess \in BOOLEAN :
          Simulate(header, valid, isSuccess)
    \/ \E header \in ApiHeaders(now) : History(header)
    \/ \E header \in ApiHeaders(now) : GetAllUsers(header)
    \/ \E request \in StatusRequests(now) :
          UpdateUserStatus(request[1], request[2][1], request[2][2])

ApiSpec == ApiInit /\ [][ApiNext]_vars

\* ------------------------------------------------------- POST /auth/register
\* The handler awaits the store twice (User.findOne, User.create); requests
\* in flight interleave at these points.

\* A string of n characters, and one of n characters between two spaces.
Chars(n) == [i \in 1..n |-> "x"]
Padded(n) == <<" ">> \o Chars(n) \o <<" ">>

RECURSIVE trimStart(_)
trimStart(s) == IF s # << >> /\ Head(s) = " " THEN trimStart(Tail(s)) ELSE s

RECURSIVE trimEnd(_)
trimEnd(s) ==
    IF s # << >> /\ s[Len(s)] = " " THEN trimEnd(SubSeq(s, 1, Len(s) - 1)) ELSE s

\* trim: true (UserSchema.username)
trim(s) == trimEnd(trimStart(s))

\* UserSchema.email match: the emails among the inputs that the pattern
\* /^\w+([\.-]?\w+)*@\w+([\.-]?\w+)*(\.\w{2,3})+$/ matches.
MatchesEmail(email) ==
    email \in {"a@example.com", "m@example.com", "u@example.com", "x@example.com",
               "new@example.com", "New@Example.com", "M@EXAMPLE.COM", "X@EXAMPLE.COM"}

\* req.body of a register request: username and password as character
\* sequences (<< >> when missing), email and role as strings ("" when missing).
RegisterBody(username, email, password, role) ==
    [username |-> username, email |-> email, password |-> password, role |-> role]

RegisterBodies ==
    {RegisterBody(Chars(5), e, Chars(8), "") :
        e \in {"new@example.com", "New@Example.com", "M@EXAMPLE.COM", "", "not-an-email"}}
    \cup {RegisterBody(n, "new@example.com", Chars(8), "") :
            n \in {<< >>, Chars(2), Padded(2), Chars(3), Chars(30), Chars(31)}}
    \cup {RegisterBody(Chars(5), "new@example.com", pw, "") : pw \in {<< >>, Chars(7)}}
    \cup {RegisterBody(Chars(5), "new@example.com", Chars(8), role) :
            role \in {"ADMIN", "ROOT"}}
    \cup {RegisterBody(Chars(2), "M@EXAMPLE.COM", Chars(8), "")}

\* No error so far: the handler goes on.
Continue == Failure(0, "")

\* register, 1. VALIDATE INPUT
registerValidate(body) ==
    IF body.username = << >> \/ body.email = "" \/ body.password = << >>
    THEN Failure(400, "Please provide username, email, and password")
    ELSE IF Len(body.password) < 8
    THEN Failure(400, "Password must be at least 8 characters long")
    ELSE Continue

\* The emails of the documents of the User collection.
StoredEmails(db, coll) ==
    {Email(id) : id \in {i \in Ids : db[i].exists}}
    \cup {coll[i].email : i \in 1..Len(coll)}

\* User.findOne({ email }): whether a document is found
findOne(db, coll, email) == email \in StoredEmails(db, coll)

\* The document User.create is called with (email: email.toLowerCase()).
NewUser(body) ==
    [username |-> body.username, email |-> toLowerCase(body.email),
     password |-> body.password, role |-> userRole(body.role), provider |-> "local"]

\* The validators of UserSchema that save runs before the insert: username
\* (trimmed) required, 3..30 characters; email required and matching;
\* password at least 8 characters.
ValidationError(doc) ==
    \/ Len(trim(doc.username)) = 0
    \/ Len(trim(doc.username)) < 3
    \/ Len(trim(doc.username)) > 30
    \/ doc.email = ""
    \/ ~MatchesEmail(doc.email)
    \/ Len(doc.password) < 8

\* the collection as it would be without the unique index on email
DuplicateKey_NoIndex(db, coll, email) == FALSE

\* email: unique: true. The insert of a document whose email is in the
\* collection fails (E11000).
DuplicateKey(db, coll, email) == email \in StoredEmails(db, coll)

\* user._id.toString() of the n-th document register created
NewId(n) == "n" \o ToString(n)

\* The document as stored: username trimmed, isActive defaulting to true.
Stored(doc, n) ==
    [id |-> NewId(n), username |-> trim(doc.username), email |-> doc.email,
     role |-> doc.role, provider |-> doc.provider, isActive |-> TRUE]

\* A register request in the handler: pc is where it is (findOne, create, or
\* done), res the response once done, created whether it inserted a document;
\* taken records whether, when the response was decided, the collection held
\* another identity with this email (ignoring case).
Registration(step, body, res, taken, created) ==
    [pc |-> step, body |-> body, res |-> res, taken |-> taken, created |-> created]

Taken(body) ==
    \E e \in StoredEmails(users, accounts) : toLowerCase(e) = toLowerCase(body.email)

\* The request arrives; the input is validated.
RegisterStart(r, body) ==
    /\ registrations[r].pc = "idle"
    /\ LET v == registerValidate(body) IN
       registrations' = [registrations EXCEPT ![r] =
           IF v = Continue
           THEN Registration("findOne", body, Continue, FALSE, FALSE)
           ELSE Registration("done", body, v, Taken(body), FALSE)]
    /\ UNCHANGED << client, now, mw, api, accounts, requests >>

\* 2. CHECK IF USER ALREADY EXISTS: await User.findOne
RegisterFindOne(r) ==
    /\ registrations[r].pc = "findOne"
    /\ LET body == registrations[r].body IN
       registrations' = [registrations EXCEPT ![r] =
           IF findOne(users, accounts, toLowerCase(body.email))
           THEN Registration("done", body,
                             Failure(400, "An account with this email already exists"),
                             Taken(body), FALSE)
           ELSE Registration("create", body, Continue, FALSE, FALSE)]
    /\ UNCHANGED << client, now, mw, api, accounts, requests >>

\* 3. CREATE NEW USER: await User.create, then the tokens and the response.
\* A ValidationError or a duplicate key error is not an AppError.
RegisterCreate(r) ==
    /\ registrations[r].pc = "create"
    /\ LET body == registrations[r].body
           doc == NewUser(body) IN
       IF ValidationError(doc) \/ DuplicateKey(users, accounts, doc.email)
       THEN /\ registrations' = [registrations EXCEPT ![r] =
                   Registration("done", body, InternalError, Taken(body), FALSE)]
            /\ UNCHANGED accounts
       ELSE LET user == Stored(doc, Len(accounts) + 1) IN
            /\ accounts' = Append(accounts, user)
            /\ registrations' = [registrations EXCEPT ![r] =
                   Registration("done", body, registerSuccess(user, now), Taken(body), TRUE)]
    /\ UNCHANGED << client, now, mw, api, requests >>

RegisterInit == ClientAtRest /\ ServerAtRest

RegisterNext ==
    \/ \E r \in 1..NumRegistrations, body \in RegisterBodies : RegisterStart(r, body)
    \/ \E r \in 1..NumRegistrations : RegisterFindOne(r)
    \/ \E r \in 1..NumRegistrations : RegisterCreate(r)

RegisterSpec == RegisterInit /\ [][RegisterNext]_vars

\* ------------------------------------ login, refresh and status update,
\* ------------------------------------ each served up to its await
\* A handler runs to its await, the store serves the read, and the handler's
\* continuation runs later with the document it was given; what the store
\* held when the read was served is kept in db.
Served(step, req, db, res) == [pc |-> step, req |-> req, db |-> db, res |-> res]

\* login: await User.findOne(...).select('+password'); the continuation
\* awaits comparePassword.
LoginFindOne(body) ==
    /\ requests["login"].pc = "idle"
    /\ requests' = [requests EXCEPT !["login"] = Served("read", body, users, Continue)]
    /\ UNCHANGED << client, now, mw, api, accounts, registrations >>

\* login after comparePassword: the isActive test on the document read, the
\* tokens, the cookie and the response.
LoginRespond ==
    /\ requests["login"].pc = "read"
    /\ requests' = [requests EXCEPT !["login"] =
           Served("done", @.req, @.db, login(@.req, @.db, now))]
    /\ UNCHANGED << client, now, mw, api, accounts, registrations >>

\* refreshToken: the cookie is verified, then await User.findById.
RefreshFindById(req) ==
    /\ requests["refresh"].pc = "idle"
    /\ requests' = [requests EXCEPT !["refresh"] = Served("read", req, users, Continue)]
    /\ UNCHANGED << client, now, mw, api, accounts, registrations >>

\* refreshToken after findById: the tests on the document read, the new
\* access token and the response.
RefreshRespond ==
    /\ requests["refresh"].pc = "read"
    /\ requests' = [requests EXCEPT !["refresh"] =
           Served("done", @.req, @.db, refreshToken(@.req, @.db, now))]
    /\ UNCHANGED << client, now, mw, api, accounts, registrations >>

\* updateUserStatus behind protect and restrictTo: await User.findById.
StatusFindById(header, id, active) ==
    /\ requests["status"].pc = "idle"
    /\ requests' = [requests EXCEPT !["status"] =
           LET g == Guard(header, requireAdmin, now)
               req == [header |-> header, id |-> id, body |-> [isActive |-> active]] IN
           IF g.next THEN Served("read", req, users, Continue)
           ELSE Served("done", req, users, Failure(g.status, g.message))]
    /\ UNCHANGED << client, now, mw, api, accounts, registrations >>

\* updateUserStatus after findById: the tests on the document read, then
\* user.isActive = isActive and await user.save(), which writes the field.
StatusSave ==
    /\ requests["status"].pc = "read"
    /\ LET req == requests["status"].req
           r == updateUserStatus(Guard(req.header, requireAdmin, now).user, req.id,
                                 req.body.isActive, requests["status"].db)
           target == castObjectId(req.id) IN
       /\ requests' = [requests EXCEPT !["status"] = Served("done", req, @.db, r.res)]
       /\ users' = IF r.res.status = 200
                   THEN [users EXCEPT ![target].isActive = r.users[target].isActive]
                   ELSE users
       /\ deactivated' = deactivated \cup {i \in Ids : users[i].isActive /\ ~users'[i].isActive}
    /\ UNCHANGED << client, now, mw, txns, last, accounts, registrations >>

\* The response of a handler has left: the next request of its kind.
NextRequest(h) ==
    /\ requests[h].pc = "done"
    /\ requests' = [requests EXCEPT ![h] = NoRegistration]
    /\ UNCHANGED << client, now, mw, api, accounts, registrations >>

\* The requests of these runs: the merchant logs in with the right password,
\* refreshes with the cookie of that login, and the administrator sets the
\* merchant's isActive.
RaceInit == ClientAtRest /\ ServerAtRest

RaceNext ==
    \/ \E password \in {"m-password", "a-password"} :
          LoginFindOne([email |-> "m@example.com", password |-> password])
    \/ LoginRespond
    \/ \E jwt \in {Empty, generateRefreshToken(RefreshPayload("m"), 0)} :
          RefreshFindById([jwt |-> jwt, body |-> [refreshToken |-> Empty]])
    \/ RefreshRespond
    \/ \E id \in {"a", "m"}, active \in {"true", "false"} :
          StatusFindById(Header("Bearer", <<generateAccessToken(AccessPayload(id, RoleOf(id)), 0)>>),
                         "m", active)
    \/ StatusSave
    \/ \E h \in {"login", "refresh", "status"} : NextRequest(h)

RaceSpec == RaceInit /\ [][RaceNext]_vars

\* ------------------------------------------------ claims on the middleware

\* The header of the request protect or optionalAuth was applied to has the
\* Bearer scheme and the credential after it is an access token of this
\* server that had not expired when the middleware ran.
BearerAccepted ==
    /\ mw.header.present
    /\ mw.header.scheme = "Bearer"
    /\ Len(mw.header.rest) >= 1
    /\ mw.header.rest[1].secret = "access"
    /\ mw.at < mw.header.rest[1].exp

\* The claims of the credential of that header.
BearerClaims ==
    [userId |-> mw.header.rest[1].payload.userId,
     email |-> mw.header.rest[1].payload.email,
     role |-> mw.header.rest[1].payload.role,
     iat |-> mw.header.rest[1].iat,
     exp |-> mw.header.rest[1].exp,
     iss |-> mw.header.rest[1].iss,
     aud |-> mw.header.rest[1].aud]

\* C12: restrictTo(allowedRoles) proceeds iff the attached role is a member
\* of the allow-list, fails with 403 naming the allowed roles iff an identity
\* is attached and its role is not a member, and fails with 401 iff no
\* identity is attached; ADMIN is denied by the allow-list <<MERCHANT>>.
C12_AllowListMembership ==
    mw.fn = "restrictTo" =>
        LET member == mw.user # NoUser
                      /\ mw.user.role \in {mw.allowedRoles[i] :
                                              i \in 1 .. Len(mw.allowedRoles)}
        IN  /\ mw.out.next <=> member
            /\ mw.out.status = 403 <=> (mw.user # NoUser /\ ~member)
            /\ mw.out.status = 403 => mw.out.roles = mw.allowedRoles
            /\ mw.out.status = 401 <=> mw.user = NoUser
            /\ (mw.allowedRoles = <<"MERCHANT">> /\ mw.user.role = "ADMIN")
                  => mw.out.status = 403

\* an ADMIN identity met the allow-list <<MERCHANT>>
C12_Witness ==
    /\ mw.fn = "restrictTo"
    /\ mw.allowedRoles = <<"MERCHANT">>
    /\ mw.user.role = "ADMIN"
    /\ ~mw.out.next

\* C13: checkOwnership(param) lets an ADMIN proceed whatever the path
\* parameter, also when it is absent; a non-ADMIN gets 400 when the parameter
\* is absent, 403 when it differs from its own id, and proceeds exactly when
\* the two are equal.
C13_Ownership ==
    (mw.fn = "checkOwnership" /\ mw.user # NoUser) =>
        LET resourceId == mw.params[mw.resourceParam] IN
        IF mw.user.role = "ADMIN"
        THEN mw.out.next
        ELSE /\ resourceId = "" => mw.out.status = 400
             /\ (resourceId # "" /\ resourceId # mw.user.userId)
                   => mw.out.status = 403
             /\ mw.out.next <=> resourceId = mw.user.userId

\* an ADMIN proceeded although the path parameter was absent
C13_Witness ==
    /\ mw.fn = "checkOwnership"
    /\ mw.user.role = "ADMIN"
    /\ mw.params[mw.resourceParam] = ""
    /\ mw.out.next

\* C14: protect lets the request reach the next handler iff the header has
\* the Bearer scheme and carries an access token that verifies, and then
\* exactly the verified claims are attached; in every other case it fails
\* with 401; it never reads the credential store.
C14_Protect ==
    mw.fn = "protect" =>
        /\ mw.out.next <=> BearerAccepted
        /\ BearerAccepted => mw.out.user = BearerClaims /\ mw.out.status = 0
        /\ ~BearerAccepted => mw.out.status = 401 /\ mw.out.user = NoUser
        /\ mw.out.reads = 0

\* a request with a valid token passed protect at the last second of the
\* token's life
C14_Witness ==
    /\ mw.fn = "protect"
    /\ mw.out.next
    /\ mw.out.user.role = "MERCHANT"
    /\ mw.at = mw.out.user.exp - 1

\* C15: optionalAuth always lets the request proceed and never answers with
\* an error; an identity is attached iff a Bearer token is present and
\* verifies.
C15_OptionalAuth ==
    mw.fn = "optionalAuth" =>
        /\ mw.out.next
        /\ mw.out.status = 0
        /\ mw.out.user # NoUser <=> BearerAccepted
        /\ BearerAccepted => mw.out.user = BearerClaims

\* a request with an expired token passed optionalAuth with no identity
C15_Witness ==
    /\ mw.fn = "optionalAuth"
    /\ mw.header.scheme = "Bearer"
    /\ Len(mw.header.rest) = 1
    /\ mw.header.rest[1].secret = "access"
    /\ mw.at >= mw.header.rest[1].exp
    /\ mw.out.next
    /\ mw.out.user = NoUser

\* ------------------------------------------------------ claims on the API

\* The routes behind protect and restrictTo.
ProtectedOps == {"simulate", "history", "users", "status"}

\* The credential of the request served last (Empty without a header).
Bearer == IF last.req.header.present THEN last.req.header.rest[1] ELSE Empty

\* That credential is an access token of this server, not expired when the
\* request was served.
BearerValid ==
    /\ last.req.header.present
    /\ last.req.header.scheme = "Bearer"
    /\ Bearer.secret = "access"
    /\ last.at < Bearer.exp

\* The jwt cookie of the request served last is a refresh token of this
\* server, not expired when the request was served.
CookieValid ==
    /\ last.req.jwt # Empty
    /\ last.req.jwt.secret = "refresh"
    /\ last.at < last.req.jwt.exp

\* The local identities whose email is that of the login request served
\* last, ignoring case.
LoginMatch ==
    {id \in Ids : /\ users[id].exists
                  /\ users[id].provider = "local"
                  /\ toLowerCase(Email(id)) = toLowerCase(last.req.body.email)}

\* C11: the handlers of simulate and history run only for a valid access
\* token with role MERCHANT or ADMIN, those of users and status only for
\* role ADMIN; a missing or invalid token gets 401, a valid one of another
\* role 403, and in both cases the collections are left as they were.
C11_RouteGuards ==
    /\ [](last.op \in ProtectedOps =>
            LET allowed == IF last.op \in {"simulate", "history"}
                           THEN {"MERCHANT", "ADMIN"} ELSE {"ADMIN"}
            IN  /\ last.handled => BearerValid /\ Bearer.payload.role \in allowed
                /\ ~BearerValid => last.res.status = 401 /\ ~last.handled
                /\ (BearerValid /\ Bearer.payload.role \notin allowed)
                      => last.res.status = 403 /\ ~last.handled)
    /\ [][(last'.op \in ProtectedOps /\ ~last'.handled)
             => users' = users /\ txns' = txns]_vars

\* a MERCHANT with a valid token was refused the status update
C11_Witness ==
    /\ last.op = "status"
    /\ BearerValid
    /\ Bearer.payload.role = "MERCHANT"
    /\ last.res.status = 403
    /\ ~last.handled

\* C16: refresh mints an access token iff the jwt cookie carries a correctly
\* signed, unexpired refresh token whose identity exists and is active;
\* otherwise it answers 403 (inactive) or 401; a refresh token in the body is
\* not used.
C16_RefreshMintsIff ==
    last.op = "refresh" =>
        LET entitled == /\ CookieValid
                        /\ users[last.req.jwt.payload.userId].exists
                        /\ users[last.req.jwt.payload.userId].isActive
        IN  /\ last.res.accessToken # Empty <=> entitled
            /\ entitled =>
                  /\ last.res.status = 200
                  /\ last.res.accessToken.secret = "access"
                  /\ last.res.accessToken.payload.userId = last.req.jwt.payload.userId
                  /\ last.res.accessToken.exp = last.at + AccessExpiry
            /\ ~entitled =>
                  last.res.status =
                     IF CookieValid /\ users[last.req.jwt.payload.userId].exists
                     THEN 403 ELSE 401

\* a request without cookie but with a valid refresh token in its body
C16_Witness ==
    /\ last.op = "refresh"
    /\ last.req.jwt = Empty
    /\ last.req.body.refreshToken.secret = "refresh"
    /\ last.at < last.req.body.refreshToken.exp
    /\ users[last.req.body.refreshToken.payload.userId].isActive
    /\ last.res.status = 401

C19_Login ==
    last.op = "login" =>
        /\ last.res.status # 200
              => last.res.accessToken = Empty /\ last.res.cookie = NoCookie
        /\ (last.req.body.email # "" /\ last.req.body.password # "") =>
              /\ LoginMatch = {}
                    => /\ last.res.status = 401
                       /\ last.res.message = "Invalid email or password"
              /\ \A id \in LoginMatch :
                    IF last.req.body.password # Password(id)
                    THEN /\ last.res.status = 401
                         /\ last.res.message = "Invalid email or password"
                    ELSE IF ~users[id].isActive
                    THEN last.res.status = 403
                    ELSE /\ last.res.status = 200
                         /\ last.res.accessToken.secret = "access"
                         /\ last.res.accessToken.payload.userId = id
                         /\ last.res.cookie.set
                         /\ last.res.cookie.name = "jwt"
                         /\ last.res.cookie.httpOnly
                         /\ last.res.cookie.value.secret = "refresh"
                         /\ last.res.cookie.value.payload.userId = id

\* an inactive identity logged in with a wrong password and got 401
C19_Witness ==
    /\ last.op = "login"
    /\ last.req.body.email = "M@EXAMPLE.COM"
    /\ last.req.body.password = "a-password"
    /\ ~users["m"].isActive
    /\ last.res.status = 401

\* C20: while an identity is inactive, its unexpired access token still
\* passes authentication on the protected routes, and its login (with the
\* right password) and its refresh get 403; once it is active again, login
\* and refresh succeed.
C20_Deactivation ==
    /\ (last.op \in ProtectedOps /\ BearerValid)
          => /\ last.res.status # 401
             /\ (last.op \in {"simulate", "history"}
                 /\ Bearer.payload.role \in {"MERCHANT", "ADMIN"}) => last.handled
    /\ last.op = "login" =>
          \A id \in LoginMatch :
             last.req.body.password = Password(id) =>
                last.res.status = IF users[id].isActive THEN 200 ELSE 403
    /\ (last.op = "refresh" /\ CookieValid
        /\ users[last.req.jwt.payload.userId].exists)
          => last.res.status =
                IF users[last.req.jwt.payload.userId].isActive THEN 200 ELSE 403

\* the merchant, set inactive, used the access token it had
C20_Witness ==
    /\ "m" \in deactivated
    /\ last.op = "simulate"
    /\ BearerValid
    /\ Bearer.payload.userId = "m"
    /\ ~users["m"].isActive
    /\ last.handled

C21_Logout ==
    /\ [](last.op = "logout" =>
            /\ last.res.status = 200
            /\ last.res.accessToken = Empty
            /\ last.res.cookie.set
            /\ last.res.cookie.name = "jwt"
            /\ last.res.cookie.value = Empty
            /\ last.res.cookie.httpOnly
            /\ last.res.cookie.maxAge = 0
            /\ \A id \in Ids, iat \in IssuedAt :
                  iat <= last.at =>
                     LET tk == generateAccessToken(AccessPayload(id, RoleOf(id)), iat) IN
                     protect(Header("Bearer", <<tk>>), now).next <=> now < iat + AccessExpiry)
    /\ [][last'.op = "logout" /\ now' = now =>
             /\ users' = users
             /\ txns' = txns
             /\ deactivated' = deactivated
             /\ UNCHANGED << client, signup, mw >>]_vars

\* A logout without credentials was served while an access token issued
\* before it has not expired.
C21_Witness ==
    /\ last.op = "logout"
    /\ ~last.req.header.present
    /\ last.res.cookie.maxAge = 0
    /\ last.at = AccessExpiry
    /\ now = AccessExpiry
    /\ protect(Header("Bearer", <<generateAccessToken(AccessPayload("m", "MERCHANT"),
                                                      AccessExpiry)>>), now).next

\* ------------------------------------------------- claims on registration

\* The register requests that were answered.
Answered == {r \in 1..NumRegistrations : registrations[r].pc = "done"}

\* C22: no two identities of the credential store have emails that are
\* equal ignoring case, whatever the order and the interleaving of the
\* register requests.
C22_UniqueEmail ==
    /\ \A i, j \in 1..Len(accounts) :
          i # j => toLowerCase(accounts[i].email) # toLowerCase(accounts[j].email)
    /\ \A i \in 1..Len(accounts), id \in Ids :
          users[id].exists => toLowerCase(Email(id)) # toLowerCase(accounts[i].email)

\* Two requests with emails equal ignoring case both passed the existence
\* check; one created the identity, the insert of the other failed.
C22_Witness ==
    \E r, q \in Answered :
        /\ r # q
        /\ registrations[r].body.email # registrations[q].body.email
        /\ toLowerCase(registrations[r].body.email) = toLowerCase(registrations[q].body.email)
        /\ registrations[r].created
        /\ registrations[q].res = InternalError
        /\ ~ValidationError(NewUser(registrations[q].body))
        /\ Len(accounts) = 1

\* C23: a register request whose email equals, ignoring case, that of an
\* identity already in the store when the request is decided (registered
\* before it, or by a concurrent request that won) is answered 400 or 409,
\* with no token and no cookie, and creates nothing.
C23_DuplicateRejected ==
    \A r \in Answered :
        registrations[r].taken =>
            /\ registrations[r].res.status \in {400, 409}
            /\ registrations[r].res.accessToken = Empty
            /\ ~registrations[r].res.cookie.set
            /\ ~registrations[r].created

\* The shape register is specified to refuse: a missing field, a password
\* shorter than 8, a username outside 3..30 characters, an invalid email.
InvalidShape(body) ==
    \/ body.username = << >> \/ body.email = "" \/ body.password = << >>
    \/ Len(body.password) < 8
    \/ Len(body.username) < 3 \/ Len(body.username) > 30
    \/ ~MatchesEmail(body.email)

\* C24: a register request of invalid shape is answered 400 or 422, creates
\* no identity, and gets no token and no cookie.
C24_ShapeValidated ==
    \A r \in Answered :
        InvalidShape(registrations[r].body) =>
            /\ registrations[r].res.status \in {400, 422}
            /\ registrations[r].res.accessToken = Empty
            /\ ~registrations[r].res.cookie.set
            /\ ~registrations[r].created

\* ------------------------------------------------- claims on TokenService

\* An access token generated for the claims mw.payload was given to
\* verifyAccessToken before its expiry.
RoundTrip ==
    /\ mw.fn = "verifyAccessToken"
    /\ mw.gen = "access"
    /\ mw.at < mw.iat + AccessExpiry

\* C25 as stated: verifyAccessToken returns the identityId, email and role
\* the token was generated for, and what it returns (and protect attaches to
\* the request) holds no claim other than these, issued-at and expiry.
C25_RoundTripExact ==
    RoundTrip =>
        /\ mw.out.ok
        /\ mw.out.decoded.userId = mw.payload.userId
        /\ mw.out.decoded.email = mw.payload.email
        /\ mw.out.decoded.role = mw.payload.role
        /\ DOMAIN mw.out.decoded \subseteq {"userId", "email", "role", "iat", "exp"}

\* C25 amended: verifyAccessToken returns the identityId, email and role the
\* token was generated for, with issued-at and expiry and the fixed issuer
\* and audience tags, and nothing else.
C25_RoundTrip ==
    RoundTrip =>
        /\ mw.out.ok
        /\ mw.out.decoded.userId = mw.payload.userId
        /\ mw.out.decoded.email = mw.payload.email
        /\ mw.out.decoded.role = mw.payload.role
        /\ mw.out.decoded.iat = mw.iat
        /\ mw.out.decoded.exp = mw.iat + AccessExpiry
        /\ mw.out.decoded.iss = Issuer
        /\ mw.out.decoded.aud = Audience
        /\ DOMAIN mw.out.decoded = {"userId", "email", "role", "iat", "exp", "iss", "aud"}

\* A token generated at 899, for an email and a role that are not those of
\* the identity's record, was verified at 900.
C25_Witness ==
    /\ RoundTrip
    /\ mw.payload = [userId |-> "u", email |-> "other@example.com", role |-> "ADMIN"]
    /\ mw.iat = 899
    /\ mw.at = 900
    /\ mw.out.ok

\* C26: an access token issued at t is accepted at every time from t up to
\* one second before t + 900 and rejected as expired, with 401, at every
\* time after t + 900; a refresh token likewise with 604800.
C26_ExpiryBoundary ==
    /\ (mw.fn = "verifyAccessToken" /\ mw.gen = "access") =>
          /\ mw.at <= mw.iat + 900 - 1 => mw.out.ok
          /\ mw.at > mw.iat + 900 =>
                /\ ~mw.out.ok
                /\ mw.out.status = 401
                /\ mw.out.message = "Access token has expired"
    /\ (mw.fn = "verifyRefreshToken" /\ mw.gen = "refresh") =>
          /\ mw.at <= mw.iat + 604800 - 1 => mw.out.ok
          /\ mw.at > mw.iat + 604800 =>
                /\ ~mw.out.ok
                /\ mw.out.status = 401
                /\ mw.out.message = "Refresh token has expired. Please log in again."

\* A refresh token issued at 0 was rejected in the second after its expiry.
C26_Witness ==
    /\ mw.fn = "verifyRefreshToken"
    /\ mw.gen = "refresh"
    /\ mw.iat = 0
    /\ mw.at = 604801
    /\ mw.out.status = 401

\* C27: verifyRefreshToken rejects every token generateAccessToken produced
\* and verifyAccessToken every token generateRefreshToken produced; an access
\* token in the jwt cookie gets 401 from refresh and no new access token,
\* and a refresh token as bearer credential gets 401 from protect and does
\* not reach the handler.
C27_SecretSeparation ==
    /\ \A id \in Ids, iat \in {t \in IssuedAt : t <= now} :
          /\ ~verifyRefreshToken(generateAccessToken(AccessPayload(id, RoleOf(id)), iat),
                                 now).ok
          /\ ~verifyAccessToken(generateRefreshToken(RefreshPayload(id), iat), now).ok
    /\ (last.op = "refresh" /\ last.req.jwt.secret = "access") =>
          /\ last.res.status = 401
          /\ last.res.accessToken = Empty
    /\ (last.op \in ProtectedOps /\ Bearer.secret = "refresh") =>
          /\ last.res.status = 401
          /\ ~last.handled

\* The jwt cookie of a refresh request held an access token of the merchant
\* that had not expired.
C27_Witness ==
    /\ last.op = "refresh"
    /\ last.req.jwt = generateAccessToken(AccessPayload("m", "MERCHANT"), 0)
    /\ last.at < AccessExpiry
    /\ last.res.status = 401

\* ------------------------------------------- further claims on the client

\* C28: in every client state the access token is held only in the
\* in-memory variable or in sessionStorage; no client operation writes it
\* to localStorage.
C28_NoDurableStorage == localStorage.accessToken = NULL

\* ----------------------------------------------- claims on the error boundary

\* C29: an error raised in a route handler or a middleware gets exactly one
\* response, written by errorHandler: an AppError its own status and message;
\* any other exception 500 and 'Internal Server Error', the message of the
\* exception appearing nowhere but in the stack, and the stack being part of
\* the response only when NODE_ENV is 'development'.
C29_ErrorBoundary ==
    mw.fn = "errorHandler" =>
        /\ Len(mw.out) = 1
        /\ LET res == mw.out[1] IN
           /\ mw.err.isAppError =>
                 res.status = mw.err.statusCode /\ res.message = mw.err.message
           /\ ~mw.err.isAppError =>
                 /\ res.status = 500
                 /\ res.message = "Internal Server Error"
                 /\ res.message # mw.err.message
           /\ res.error.present <=> mw.env = "development"
           /\ ~res.error.present => res.error.message = ""

\* A duplicate-key error of the store, raised in a handler of a production
\* build, was answered.
C29_Witness ==
    /\ mw.fn = "errorHandler"
    /\ mw.raisedIn = "handler"
    /\ ~mw.err.isAppError
    /\ mw.err.statusCode = 0
    /\ mw.env = "production"
    /\ mw.out[1].status = 500

\* The steps of the refresh routine of the response interceptor.
RefreshRoutine ==
    \/ \E c \in Calls, status \in {401, 403} : RespondError(c, status)
    \/ \E c \in Calls : RefreshSucceeds(c)
    \/ StepSetTokens
    \/ StepProcessQueue
    \/ StepRetry
    \/ \E c \in Calls : RefreshFails(c)
    \/ RunContinuation

\* The page is loaded anew, which creates the module's variables again.
Reload == PageLoad \/ \E c \in Calls : LoginOk(c)

\* C30: the in-memory access token and the isRefreshing flag change only in
\* steps of the refresh routine; the request interceptor and the responses
\* to business calls leave both as they are.
C30_SingleWriter ==
    [][/\ (accessToken' # accessToken \/ isRefreshing' # isRefreshing) =>
             (RefreshRoutine \/ Reload)
       /\ ((\E c \in Calls, url \in Urls : StartCall(c, url)) \/ (\E c \in Calls : RespondOk(c)))
             => (accessToken' = accessToken /\ isRefreshing' = isRefreshing)]_vars

\* ---- claims on the status update, the history and the administrators ----

\* a step that serves PATCH /users/:id/status (the only steps that leave
\* such an exchange as the last one and change it or the store)
StatusStep == last'.op = "status" /\ (last' # last \/ users' # users)

\* The status a status update is to get from the caller, the identity the
\* path denotes ("none" when it is no ObjectId) and the body, in the order of
\* the handler's checks; 200 when it is to be accepted.
StatusExpected(caller, target, active, db) ==
    IF active \notin {"true", "false"} THEN 400
    ELSE IF target = caller THEN 400
    ELSE IF target \notin Ids \/ ~db[target].exists THEN 404
    ELSE IF RoleOf(target) = "ADMIN" /\ active = "false" THEN 403
    ELSE 200

C32_HistoryScope ==
    (last.op = "history" /\ last.res.status = 200) =>
        LET caller == Bearer.payload
            data == last.res.data IN
        /\ caller.role = "MERCHANT" =>
              \A i \in 1..Len(data) : data[i] = caller.userId
        /\ (\E i \in 1..Len(data) : data[i] # caller.userId) => caller.role = "ADMIN"

\* the collection holds a transaction of another merchant, and the history
\* served to the merchant leaves it out
C32_Witness ==
    /\ last.op = "history"
    /\ last.res.status = 200
    /\ Bearer.payload.userId = "m"
    /\ Bearer.payload.role = "MERCHANT"
    /\ \E i \in 1..Len(txns) : txns[i] # "m"
    /\ last.res.data = SelectSeq(txns, LAMBDA merchantId : merchantId = "m")

\* ---- claims on the client: termination, the queue, logout ----

\* C33: whatever the server answers, a refresh request is sent only for a
\* call that was answered 401 and had not started one before, and _retry
\* stays set while the call lives: each call starts at most one refresh, so
\* there are no more refresh requests than calls answered 401; a call is
\* sent at most once more than there are calls; and every call that was
\* sent eventually ends, when every request gets its response.
C33_BoundedRetry ==
    /\ [][\A c \in Calls :
            /\ (calls[c].st # "refreshing" /\ calls'[c].st = "refreshing")
                  => /\ calls[c].st = "sent"
                     /\ ~calls[c].retry
                     /\ calls'[c].retry
                     /\ calls'[c].status = 401
            /\ (calls[c].retry /\ calls'[c].st \notin Ended) => calls'[c].retry]_vars
    /\ [](\A c \in Calls : calls[c].sends <= LiveCalls + 1)
    /\ \A c \in Calls : (calls[c].st \notin {"new"} \cup Ended) ~> (calls[c].st \in Ended)

\* a call was queued behind the refresh of another call, re-sent with the
\* new token, answered 401 again, started a refresh of its own and is sent
\* for the third time
C33_Witness ==
    \E c \in Calls : calls[c].sends = 3 /\ calls[c].retry /\ calls[c].st = "sent"

\* the calls whose refresh cycle is open: the refresh request is
\* outstanding or its continuation is running
CycleOpen == {c \in Calls : calls[c].st \in {"refreshing", "resuming"}}

\* C34: the queue holds continuations only while isRefreshing is set, and
\* isRefreshing is set only while a refresh cycle is open: it is false after
\* a success, after a failure, after the return without a refresh token and
\* after the return outside a browser; with no cycle open, the error
\* handler takes the refresh branch for the next unretried 401.
C34_IdleAfterCycle ==
    /\ failedQueue # << >> => isRefreshing
    /\ isRefreshing => \E c \in Calls : c \in CycleOpen
    /\ \A item \in BOOLEAN : ~startRefresh("axiosInstance", FALSE, item).isRefreshing
    /\ CycleOpen = {} => OnError(impl, 401, NewCall, isRefreshing) = "refresh"

\* a cycle ended with the re-send of its initiator, and the 401 of another
\* call has started the next one
C34_Witness ==
    \E c, d \in Calls :
        /\ calls[d].retry /\ calls[d].st = "sent" /\ calls[d].sends = 2
        /\ calls[c].st = "refreshing"
        /\ isRefreshing
        /\ failedQueue = << >>

\* C35: when a logout call succeeds, no access token is left in the
\* in-memory variable, in sessionStorage or in localStorage, whatever logins
\* and refreshes came before; the calls of the page are gone with it and the
\* jwt cookie is cleared, so that no call carries a bearer token before the
\* next login.
C35_LogoutClearsTokens ==
    [][\A c \in Calls :
          (calls[c].url = "logout" /\ calls[c].st = "sent" /\ calls'[c].st = "ok")
          => /\ accessToken' = NULL
             /\ sessionStorage' = NULL
             /\ localStorage'.accessToken = NULL
             /\ ~cookieValid'
             /\ \A d \in Calls : calls'[d].st \in Ended \cup {"new"}]_vars

\* C36: in every state the API operations reach, every identity of the
\* store whose role is ADMIN is active.
C36_AdminsStayActive ==
    \A id \in Ids : (users[id].exists /\ RoleOf(id) = "ADMIN") => users[id].isActive

\* the administrator x registered, another administrator asked to
\* deactivate x and was refused
C36_Witness ==
    /\ users["x"].exists /\ users["x"].provider = "local"
    /\ last.op = "status"
    /\ last.req.id = "x"
    /\ last.req.body.isActive = "false"
    /\ last.res.status = 403
    /\ users["x"].isActive

\* ---- claims on the refresh cookie ----

\* C37: under every NODE_ENV and ALLOW_INSECURE_COOKIES, the jwt cookie that
\* register and login set is httpOnly and lives 7 days (604800 seconds),
\* sameSite 'none' goes with secure only, and register and login set the
\* same attributes.
C37_CookieAttributes ==
    mw.fn = "cookieOptions" =>
        /\ mw.out.set /\ mw.out.name = "jwt"
        /\ mw.out.httpOnly
        /\ mw.out.maxAge = 604800 * 1000
        /\ mw.out.sameSite \in {"lax", "none", "strict"}
        /\ mw.out.sameSite = "none" => mw.out.secure
        /\ registerCookieOptions(mw.env, mw.allowInsecure)
              = loginCookieOptions(mw.env, mw.allowInsecure)

\* login set the cookie in production with ALLOW_INSECURE_COOKIES=true:
\* neither secure nor sameSite 'none'
C37_Witness ==
    /\ mw.fn = "cookieOptions"
    /\ mw.handler = "login"
    /\ mw.env = "production"
    /\ mw.allowInsecure = "true"
    /\ ~mw.out.secure
    /\ mw.out.sameSite = "lax"

\* C38: however a login or a refresh interleaves with a status update that
\* deactivates the same identity, a response that carries tokens of an
\* identity is produced only while the store holds that identity as active:
\* none is issued once the deactivation is in the store.
C38_NoTokenAfterDeactivation ==
    [][\A h \in {"login", "refresh"} :
          (/\ requests[h].pc = "read"
           /\ requests'[h].pc = "done"
           /\ requests'[h].res.status = 200)
          => users[requests'[h].res.accessToken.payload.userId].isActive]_vars

\* C39: the refresh cookie a login has just set, sent back by the browser,
\* is found and accepted by both readers of the refresh token: the refresh
\* handler and the middleware verifyRefreshToken.
C39_OneCookieName ==
    (last.op = "login" /\ last.res.status = 200) =>
        LET cookies == CookiesAfter(last.res.cookie) IN
        /\ refreshToken([jwt |-> cookies["jwt"], body |-> [refreshToken |-> Empty]],
                        users, last.at).status = 200
        /\ verifyRefreshTokenCookie(cookies, last.at).next

====
